---------------------------- MODULE Spec2Model ----------------------------
(***************************************************************************)
(* A model of the europatch patch-idea generator.                          *)
(*                                                                         *)
(* Two generators live in the repository:                                  *)
(*   - backend/src/patch_generator.py  (database-integrated):              *)
(*       _determine_patch_type, _determine_module_roles,                   *)
(*       _generate_connections, _generate_control_settings, generate_patch *)
(*   - patch_generator.py              (catalog-mock):                     *)
(*       _analyze_prompt, _find_relevant_modules, _generate_*_patch,       *)
(*       generate_patch_ideas                                              *)
(*                                                                         *)
(* Each component is checked under its own specification:                  *)
(*   SpecClassify  the two prompt classifiers                              *)
(*   SpecRank      the relevance ranker                                    *)
(*   SpecConn      the connection synthesizer (template + fallback pass)   *)
(*   SpecIdeas     the catalog-mock generate_patch_ideas                   *)
(* Text is modelled by TLA+ strings, on which Len, SubSeq and \o act as on *)
(* sequences of characters; numbers with a fraction are scaled integers.   *)
(***************************************************************************)
EXTENDS Integers, Sequences, FiniteSets, TLC

VARIABLES
    \* ---- prompt classifier -------------------------------------------
    prompt,        \* the prompt handed to the classifier
    cls_pc,        \* "start" | "determined" | "analyzed" | "idle"
    detected,      \* the archetype returned
    max_types,     \* the list random.choice draws from (backend tie-break)
    \* ---- relevance ranker --------------------------------------------
    rk_modules,    \* the caller's module list (sequence of module records)
    rk_type,       \* the archetype handed to the ranker
    rk_pc,         \* "start" | "ranked" | "idle"
    rk_sorted,     \* the list returned by _find_relevant_modules
    \* ---- catalog-mock generate_patch_ideas ----------------------------
    gi_connector,  \* TRUE when the generator was built with a db_connector
    gi_rack,       \* what _get_rack_modules returns for the rack id
    gi_prompt,     \* the prompt argument
    gi_complexity, \* the complexity argument
    gi_max_results,\* the max_results argument
    gi_db_ideas,   \* what the connector's find_patch_ideas returns
    gi_pc,         \* "start" | "returned" | "raised" | "idle"
    gi_patch_type, \* the archetype _analyze_prompt returned
    gi_result,     \* the list generate_patch_ideas returned
    gi_error,      \* the exception it raised, or NONE
    \* ---- backend _generate_connections --------------------------------
    cn_modules,    \* the modules argument (module rows, repeats allowed)
    cn_patch_type, \* the patch_type argument
    cn_roles,      \* the module_roles argument: module id -> importance
    cn_pc,         \* "template" | "fallback" | "done" | "idle"
    cn_pattern,    \* index of the connection pattern being processed
    cn_source,     \* index into source_modules[:2]
    cn_target,     \* index into target_modules[:2]
    cn_iter,       \* iterations of the fallback loop started so far
    cn_template_count, \* len(connections) when the template pass ended
    cn_connections,\* the list connections (endpoints and importance)
    cn_last,       \* what the last loop body did, with the dict it built
    \* ---- backend generate_patch ---------------------------------------
    gp_request,    \* the modules argument: ids, dicts, objects, other values
    gp_prompt,     \* the prompt argument
    gp_pc,         \* position in generate_patch, "raised" or "returned"
    gp_error,      \* the exception raised, or NONE
    gp_module_objects, \* the resolved module rows
    gp_patch_type, \* the archetype _determine_patch_type returned
    gp_settings,   \* the list _generate_control_settings returned
    gp_db,         \* the committed rows: four patch tables, Module manuals
    gp_result,     \* the returned dict, as a sequence of zero or one value
    \* ---- backend _determine_module_roles ------------------------------
    ro_modules,    \* the modules argument
    ro_patch_type, \* the patch_type argument
    ro_pc,         \* "loop" | "returned" | "idle"
    ro_i,          \* position of the module the loop handles next
    ro_roles,      \* the returned dict module id -> role and importance
    \* ---- ModularGridParser --------------------------------------------
    mg_db,         \* the committed rows of UserRack, Module and RackModule
    mg_calls,      \* number of calls made so far
    mg_call        \* the last call: operation, input, outcome

clsVars == <<prompt, cls_pc, detected, max_types>>
rkVars  == <<rk_modules, rk_type, rk_pc, rk_sorted>>
giVars  == <<gi_connector, gi_rack, gi_prompt, gi_complexity, gi_max_results,
             gi_db_ideas, gi_pc, gi_patch_type, gi_result, gi_error>>
cnVars  == <<cn_modules, cn_patch_type, cn_roles, cn_pc, cn_pattern,
             cn_source, cn_target, cn_iter, cn_template_count,
             cn_connections, cn_last>>
gpVars  == <<gp_request, gp_prompt, gp_pc, gp_error, gp_module_objects,
             gp_patch_type, gp_settings, gp_db, gp_result>>
roVars  == <<ro_modules, ro_patch_type, ro_pc, ro_i, ro_roles>>
mgVars  == <<mg_db, mg_calls, mg_call>>
vars    == <<clsVars, rkVars, giVars, cnVars, gpVars, roVars, mgVars>>

NONE == "<none>"

---------------------------------------------------------------------------
(* Text helpers: Python's str.lower, `in`, str.split, str.upper            *)

UpperAlpha == "ABCDEFGHIJKLMNOPQRSTUVWXYZ"
LowerAlpha == "abcdefghijklmnopqrstuvwxyz"

\* the lower-case letter of every upper-case letter, and the converse
LowerOf ==
    [c \in {SubSeq(UpperAlpha, i, i) : i \in 1..26} |->
        LET i == CHOOSE k \in 1..26 : SubSeq(UpperAlpha, k, k) = c
        IN  SubSeq(LowerAlpha, i, i)]

UpperOf ==
    [c \in {SubSeq(LowerAlpha, i, i) : i \in 1..26} |->
        LET i == CHOOSE k \in 1..26 : SubSeq(LowerAlpha, k, k) = c
        IN  SubSeq(UpperAlpha, i, i)]

LowerChar(c) == IF c \in DOMAIN LowerOf THEN LowerOf[c] ELSE c

UpperChar(c) == IF c \in DOMAIN UpperOf THEN UpperOf[c] ELSE c

RECURSIVE Lower(_)
Lower(s) ==
    IF Len(s) = 0 THEN ""
    ELSE LowerChar(SubSeq(s, 1, 1)) \o Lower(SubSeq(s, 2, Len(s)))

RECURSIVE Upper(_)
Upper(s) ==
    IF Len(s) = 0 THEN ""
    ELSE UpperChar(SubSeq(s, 1, 1)) \o Upper(SubSeq(s, 2, Len(s)))

\* Python: k in s
Contains(s, k) ==
    \E i \in 1..(Len(s) - Len(k) + 1) : SubSeq(s, i, i + Len(k) - 1) = k

\* Python: s.endswith(k)
EndsWith(s, k) ==
    Len(s) >= Len(k) /\ SubSeq(s, Len(s) - Len(k) + 1, Len(s)) = k

\* the elements of a sequence, as a set
Range(q) == {q[i] : i \in 1..Len(q)}

---------------------------------------------------------------------------
(* Prompt classifier, backend: PatchGenerator._determine_patch_type        *)

\* the keys of self.patch_types, in insertion order
PatchTypeOrder ==
    <<"ambient", "generative", "percussion", "bass", "lead", "drone">>

keywords ==
    [ambient    |-> <<"ambient", "atmospheric", "pad", "texture", "drone",
                      "evolving", "spacey", "ethereal">>,
     generative |-> <<"generative", "random", "evolving", "self-playing",
                      "algorithmic", "chance", "probability">>,
     percussion |-> <<"percussion", "drum", "kick", "snare", "hat",
                      "rhythmic", "beat">>,
     bass       |-> <<"bass", "low", "sub", "808", "acid", "deep">>,
     lead       |-> <<"lead", "melody", "solo", "arpeggio", "sequence",
                      "pluck">>,
     drone      |-> <<"drone", "sustained", "continuous", "dark", "rumble",
                      "noise">>]

\* the same scan started from the last key: the last mention wins
RECURSIVE FirstMention_last(_, _)
FirstMention_last(prompt_lower, i) ==
    LET k == Len(PatchTypeOrder) + 1 - i
    IN  IF i > Len(PatchTypeOrder) THEN NONE
        ELSE IF Contains(prompt_lower, PatchTypeOrder[k]) THEN PatchTypeOrder[k]
        ELSE FirstMention_last(prompt_lower, i + 1)

\* for patch_type in self.patch_types: if patch_type in prompt_lower: return
RECURSIVE FirstMention(_, _)
FirstMention(prompt_lower, i) ==
    IF i > Len(PatchTypeOrder) THEN NONE
    ELSE IF Contains(prompt_lower, PatchTypeOrder[i]) THEN PatchTypeOrder[i]
    ELSE FirstMention(prompt_lower, i + 1)

\* the same loop leaving at the first keyword found: a score is 0 or 1
RECURSIVE CountMatches_break(_, _, _)
CountMatches_break(prompt_lower, type_keywords, i) ==
    IF i > Len(type_keywords) THEN 0
    ELSE IF Contains(prompt_lower, type_keywords[i]) THEN 1
    ELSE CountMatches_break(prompt_lower, type_keywords, i + 1)

\* for keyword in type_keywords: if keyword in prompt_lower: counts[..] += 1
RECURSIVE CountMatches(_, _, _)
CountMatches(prompt_lower, type_keywords, i) ==
    IF i > Len(type_keywords) THEN 0
    ELSE (IF Contains(prompt_lower, type_keywords[i]) THEN 1 ELSE 0)
         + CountMatches(prompt_lower, type_keywords, i + 1)

counts(prompt_lower) ==
    [pt \in Range(PatchTypeOrder) |->
        CountMatches(prompt_lower, keywords[pt], 1)]

MaxCount(cnt) ==
    CHOOSE m \in {cnt[pt] : pt \in DOMAIN cnt} :
        \A pt \in DOMAIN cnt : cnt[pt] <= m

\* [pt for pt, count in counts.items() if count == max_count]
RECURSIVE MaxTypes(_, _, _)
MaxTypes(cnt, m, i) ==
    IF i > Len(PatchTypeOrder) THEN <<>>
    ELSE (IF cnt[PatchTypeOrder[i]] = m THEN <<PatchTypeOrder[i]>> ELSE <<>>)
         \o MaxTypes(cnt, m, i + 1)

\* a classifier that always falls back to the catalog-mock default
DefaultPatchType_generative == "generative"

\* "Default to ambient if no matches"
DefaultPatchType == "ambient"

---------------------------------------------------------------------------
(* Prompt classifier, catalog-mock: PatchGenerator._analyze_prompt         *)

\* the archetypes of the if-chain, in the order the chain tests them
MockTypeOrder ==
    <<"ambient", "generative", "percussion", "bass", "lead", "drone", "techno">>

\* the substrings each branch of the if-chain tests for
MockKeywords ==
    [ambient    |-> {"ambient", "atmospheric", "pad"},
     generative |-> {"generative", "random", "evolving"},
     percussion |-> {"percussion", "drum", "beat"},
     bass       |-> {"bass", "low"},
     lead       |-> {"lead", "melody"},
     drone      |-> {"drone", "sustained"},
     techno     |-> {"techno", "dance"}]

AnalyzePrompt(p) ==
    LET prompt_lower == Lower(p) IN
    IF Contains(prompt_lower, "ambient") \/ Contains(prompt_lower, "atmospheric")
       \/ Contains(prompt_lower, "pad") THEN "ambient"
    ELSE IF Contains(prompt_lower, "generative") \/ Contains(prompt_lower, "random")
       \/ Contains(prompt_lower, "evolving") THEN "generative"
    ELSE IF Contains(prompt_lower, "percussion") \/ Contains(prompt_lower, "drum")
       \/ Contains(prompt_lower, "beat") THEN "percussion"
    ELSE IF Contains(prompt_lower, "bass") \/ Contains(prompt_lower, "low")
       THEN "bass"
    ELSE IF Contains(prompt_lower, "lead") \/ Contains(prompt_lower, "melody")
       THEN "lead"
    ELSE IF Contains(prompt_lower, "drone") \/ Contains(prompt_lower, "sustained")
       THEN "drone"
    ELSE IF Contains(prompt_lower, "techno") \/ Contains(prompt_lower, "dance")
       THEN "techno"
    ELSE "generative"

---------------------------------------------------------------------------
(* Inputs of the classifier: prompts of at most MaxWords words             *)

MaxWords == 2

Vocabulary ==
    {"xyz", "Ambient", "BASS", "drone", "lead", "techno", "pad", "evolving",
     "that", "below", "melody", "sustained", "dark", "dance"}

RECURSIVE Join(_)
Join(ws) ==
    IF Len(ws) = 0 THEN ""
    ELSE IF Len(ws) = 1 THEN ws[1]
    ELSE ws[1] \o " " \o Join(Tail(ws))

Prompts ==
    {Join(ws) : ws \in UNION {[1..n -> Vocabulary] : n \in 0..MaxWords}}

---------------------------------------------------------------------------
(* Relevance ranker, catalog-mock: PatchGenerator._find_relevant_modules   *)

\* a module dict without a 'module_type' key
MISSING == "<missing>"

\* module.get('module_type', 'Other')
TypeKey(module) ==
    IF module.module_type = MISSING THEN "Other" ELSE module.module_type

priority_types ==
    [ambient    |-> <<"VCO", "Effect", "LFO", "VCA", "VCF">>,
     generative |-> <<"Sequencer", "LFO", "VCO", "Effect", "VCF">>,
     percussion |-> <<"VCO", "Envelope", "VCA", "Effect">>,
     bass       |-> <<"VCO", "VCF", "VCA", "Envelope">>,
     lead       |-> <<"VCO", "VCF", "Envelope", "Effect">>,
     drone      |-> <<"VCO", "Effect", "VCF", "LFO">>,
     techno     |-> <<"Sequencer", "VCO", "VCF", "Envelope", "Effect">>]

\* priority_types.get(patch_type, ['VCO', 'VCF', 'VCA', 'Effect'])
CurrentPriorities(patch_type) ==
    IF patch_type \in DOMAIN priority_types
    THEN priority_types[patch_type]
    ELSE <<"VCO", "VCF", "VCA", "Effect">>

\* the keys of the dict module_types, in insertion order
RECURSIVE TypeKeys(_, _)
TypeKeys(modules, i) ==
    IF i > Len(modules) THEN <<>>
    ELSE LET rest == TypeKeys(modules, i + 1)
             k    == TypeKey(modules[i])
         IN  <<k>> \o SelectSeq(rest, LAMBDA t : t # k)

\* module_types[module_type]: the modules of one type, in input order
Group(modules, module_type) ==
    SelectSeq(modules, LAMBDA m : TypeKey(m) = module_type)

\* for priority_type in current_priorities:
\*     if priority_type in module_types: sorted_modules.extend(...)
RECURSIVE AddPriority(_, _, _)
AddPriority(modules, current_priorities, i) ==
    IF i > Len(current_priorities) THEN <<>>
    ELSE Group(modules, current_priorities[i])
         \o AddPriority(modules, current_priorities, i + 1)

\* the second loop without its test: every group is appended again
RECURSIVE AddRemaining_all(_, _, _, _)
AddRemaining_all(modules, keys, current_priorities, i) ==
    IF i > Len(keys) THEN <<>>
    ELSE Group(modules, keys[i])
         \o AddRemaining_all(modules, keys, current_priorities, i + 1)

\* for module_type, module_list in module_types.items():
\*     if module_type not in current_priorities: sorted_modules.extend(...)
RECURSIVE AddRemaining(_, _, _, _)
AddRemaining(modules, keys, current_priorities, i) ==
    IF i > Len(keys) THEN <<>>
    ELSE (IF keys[i] \notin Range(current_priorities)
          THEN Group(modules, keys[i]) ELSE <<>>)
         \o AddRemaining(modules, keys, current_priorities, i + 1)

FindRelevantModules(modules, patch_type) ==
    LET current_priorities == CurrentPriorities(patch_type)
    IN  AddPriority(modules, current_priorities, 1)
        \o AddRemaining(modules, TypeKeys(modules, 1), current_priorities, 1)

---------------------------------------------------------------------------
(* Inputs of the ranker: lists of at most MaxRankModules modules           *)

MaxRankModules == 3

RankTypes == {"VCO", "Effect", "LFO", "Mixer", "Utility", MISSING}

\* the module at position i is the object with identity i
ModuleLists ==
    UNION {{[i \in 1..n |-> [id |-> i, module_type |-> f[i]]] :
                f \in [1..n -> RankTypes]} : n \in 0..MaxRankModules}

---------------------------------------------------------------------------
(* Catalog-mock generator: PatchGenerator._generate_*_patch                *)
(* A module is a record [id, name, module_type, connections, controls]; a  *)
(* connection [id, name, type]; a control [id, name, type, min_value,      *)
(* max_value].  value_numeric is kept in hundredths.                       *)

cable_colors ==
    <<"red", "blue", "yellow", "green", "purple", "orange", "white", "black">>

\* [m for m in modules if m['module_type'] == 'VCO']
sound_sources(modules) ==
    SelectSeq(modules, LAMBDA m : m.module_type = "VCO")

\* [m for m in modules if m['module_type'] in ['LFO', 'Envelope', 'Utility']]
modulation_sources(modules) ==
    SelectSeq(modules, LAMBDA m : m.module_type \in {"LFO", "Envelope", "Utility"})

\* [m for m in modules if m['module_type'] == 'Effect']
effects(modules) ==
    SelectSeq(modules, LAMBDA m : m.module_type = "Effect")

\* [m for m in modules if m['module_type'] in ['Mixer', 'VCA']]
mixers(modules) ==
    SelectSeq(modules, LAMBDA m : m.module_type \in {"Mixer", "VCA"})

\* [m for m in modules if m['module_type'] == 'Sequencer']
sequencers(modules) ==
    SelectSeq(modules, LAMBDA m : m.module_type = "Sequencer")

\* m['module_type'] on a dict without the key raises KeyError
RaisesKeyError(modules) ==
    \E i \in 1..Len(modules) : modules[i].module_type = MISSING

\* next((x for x in items if test(x)), default)
NextOr(items, Test(_), default) ==
    LET found == SelectSeq(items, Test)
    IN  IF Len(found) > 0 THEN found[1] ELSE default

\* conn['type'] == 'output' and ('OUT' in name or 'OUTPUT' in name.upper())
IsOutJack(conn) ==
    /\ conn.type = "output"
    /\ Contains(conn.name, "OUT") \/ Contains(Upper(conn.name), "OUTPUT")

\* conn['type'] == 'input' and ('IN' in name or 'INPUT' in name.upper())
IsInJack(conn) ==
    /\ conn.type = "input"
    /\ Contains(conn.name, "IN") \/ Contains(Upper(conn.name), "INPUT")

\* conn['type'] == 'input' and any(x in name.upper() for x in ['FM','MOD','CV'])
IsModJack(conn) ==
    /\ conn.type = "input"
    /\ \E x \in {"FM", "MOD", "CV"} : Contains(Upper(conn.name), x)

\* any(x in ctrl['name'].upper() for x in ['MIX', 'BLEND', 'WET'])
IsMixControl(ctrl) ==
    \E x \in {"MIX", "BLEND", "WET"} : Contains(Upper(ctrl.name), x)

\* any(x in ctrl['name'].upper() for x in ['FREQ', 'PITCH', 'TUNE'])
IsFreqControl(ctrl) ==
    \E x \in {"FREQ", "PITCH", "TUNE"} : Contains(Upper(ctrl.name), x)

\* the dict appended to idea['connections']
MockConnection(src, src_conn, tgt, tgt_conn, color, importance) ==
    [source_module     |-> [id |-> src.id, name |-> src.name],
     source_connection |-> [id |-> src_conn.id, name |-> src_conn.name,
                            type |-> "output"],
     target_module     |-> [id |-> tgt.id, name |-> tgt.name],
     target_connection |-> [id |-> tgt_conn.id, name |-> tgt_conn.name,
                            type |-> "input"],
     cable_color       |-> color,
     importance        |-> importance]

\* the dict appended to idea['control_settings']
MockControlSetting(module, ctrl, value_numeric, value_text, importance) ==
    [module        |-> [id |-> module.id, name |-> module.name],
     control       |-> [id |-> ctrl.id, name |-> ctrl.name, type |-> ctrl.type],
     value_numeric |-> value_numeric,
     value_text    |-> value_text,
     importance    |-> importance]

\* the number of random.choice(self.cable_colors) draws of the ambient patch
AmbientDraws(modules) ==
    IF Len(sound_sources(modules)) > 0 /\ Len(effects(modules)) > 0
    THEN 1 + (IF Len(modulation_sources(modules)) > 0 THEN 1 ELSE 0)
           + (IF Len(mixers(modules)) > 0 THEN 1 ELSE 0)
    ELSE 0

\* _generate_ambient_patch(modules, complexity); colors are the draws of
\* random.choice in the order they are made
GenerateAmbientPatch(modules, complexity, colors) ==
    LET ss  == sound_sources(modules)
        ms  == modulation_sources(modules)
        fx  == effects(modules)
        mx  == mixers(modules)
    IN
    IF ~(Len(ss) > 0 /\ Len(fx) > 0) THEN <<>>
    ELSE
    LET source_output == NextOr(ss[1].connections, IsOutJack,
                                [id |-> 0, name |-> "Output", type |-> "output"])
        effect_input  == NextOr(fx[1].connections, IsInJack,
                                [id |-> 0, name |-> "Input", type |-> "input"])
        audio == <<MockConnection(ss[1], source_output, fx[1], effect_input,
                                  colors[1], 5)>>
        modulation ==
            IF Len(ms) > 0
            THEN LET mod_output == NextOr(ms[1].connections, IsOutJack,
                                [id |-> 0, name |-> "Output", type |-> "output"])
                     mod_input  == NextOr(ss[1].connections, IsModJack,
                                [id |-> 0, name |-> "FM Input", type |-> "input"])
                 IN  <<MockConnection(ms[1], mod_output, ss[1], mod_input,
                                      colors[2], 4)>>
            ELSE <<>>
        mixing ==
            IF Len(mx) > 0
            THEN LET effect_output == NextOr(fx[1].connections, IsOutJack,
                                [id |-> 0, name |-> "Output", type |-> "output"])
                     mixer_input   == NextOr(mx[1].connections, IsInJack,
                                [id |-> 0, name |-> "Input 1", type |-> "input"])
                 IN  <<MockConnection(fx[1], effect_output, mx[1], mixer_input,
                                      colors[Len(colors)], 3)>>
            ELSE <<>>
        mix_controls  == SelectSeq(fx[1].controls, IsMixControl)
        freq_controls == SelectSeq(ss[1].controls, IsFreqControl)
        mix_setting ==
            IF Len(mix_controls) > 0
            THEN <<MockControlSetting(fx[1], mix_controls[1], 75, "3 o'clock", 4)>>
            ELSE <<>>
        freq_setting ==
            IF Len(freq_controls) > 0
            THEN <<MockControlSetting(ss[1], freq_controls[1], 30, "9 o'clock", 5)>>
            ELSE <<>>
    IN  << [title |-> "Ambient Texture with " \o ss[1].name \o " and "
                          \o fx[1].name,
            description |-> "A spacious ambient patch using " \o ss[1].name
                          \o " as the sound source and " \o fx[1].name
                          \o " for spatial effects.",
            patch_type |-> "ambient",
            complexity |-> complexity,
            connections |-> audio \o modulation \o mixing,
            control_settings |-> mix_setting \o freq_setting,
            origin |-> "generated"] >>

\* _generate_generative_patch(modules, complexity)
GenerateGenerativePatch(modules, complexity) ==
    LET sq == sequencers(modules)
        ss == sound_sources(modules)
        ms == modulation_sources(modules)
    IN
    IF ~(Len(ss) > 0 /\ (Len(sq) > 0 \/ Len(ms) > 0)) THEN <<>>
    ELSE << [title |-> "Generative Sequence"
                       \o (IF Len(sq) > 0 THEN " with " \o sq[1].name
                           ELSE " with " \o ms[1].name),
             description |-> "A self-generating patch that creates evolving melodies and textures without user intervention.",
             patch_type |-> "generative",
             complexity |-> complexity,
             connections |-> <<>>,
             control_settings |-> <<>>,
             origin |-> "generated"] >>

---------------------------------------------------------------------------
(* Catalog-mock assembler: PatchGenerator.generate_patch_ideas             *)

\* x.get('relevance_score', 0.5), in tenths
NeutralScore == 5

ScoreOf(idea) ==
    IF "relevance_score" \in DOMAIN idea THEN idea.relevance_score
    ELSE NeutralScore

\* insertion of one idea behind every idea that does not score lower
RECURSIVE InsertDesc(_, _)
InsertDesc(sorted, idea) ==
    IF Len(sorted) = 0 THEN <<idea>>
    ELSE IF ScoreOf(sorted[Len(sorted)]) >= ScoreOf(idea)
         THEN Append(sorted, idea)
         ELSE Append(InsertDesc(SubSeq(sorted, 1, Len(sorted) - 1), idea),
                     sorted[Len(sorted)])

\* all_ideas.sort(key=lambda x: x.get('relevance_score', 0.5), reverse=True):
\* a stable sort by descending score of the first i ideas
RECURSIVE SortByScore(_, _)
SortByScore(ideas, i) ==
    IF i = 0 THEN <<>>
    ELSE InsertDesc(SortByScore(ideas, i - 1), ideas[i])

\* all_ideas[:max_results]; a negative bound counts from the end of the list
Slice(ideas, n) ==
    IF n >= 0
    THEN SubSeq(ideas, 1, IF n < Len(ideas) THEN n ELSE Len(ideas))
    ELSE SubSeq(ideas, 1, Len(ideas) + n)

---------------------------------------------------------------------------
(* Backend catalog: the rows of Module and ModuleConnection                *)

\* a column holding NULL
NULL == "<null>"

\* the rows the module lists of SpecConn are drawn from
Library ==
    << [id |-> 1, name |-> "Plaits",  module_type |-> "Oscillator"],
       [id |-> 2, name |-> "Verb",    module_type |-> "Reverb"],
       [id |-> 3, name |-> "Maths",
        module_type |-> "Envelope Generator / LFO / Oscillator"],
       [id |-> 4, name |-> "Optomix", module_type |-> "Filter / VCA"],
       [id |-> 5, name |-> "Blank",   module_type |-> NULL],
       [id |-> 6, name |-> "Ripples", module_type |-> "Filter"] >>

\* the rows of two fixed racks: the end-to-end scenario of the documentation
\* (Plaits as a VCO, Clouds as an Effect) and a clocked envelope
PlaitsVCO    == [id |-> 7, name |-> "Plaits", module_type |-> "VCO"]
CloudsEffect == [id |-> 8, name |-> "Clouds", module_type |-> "Effect"]
PamClock     == [id |-> 9, name |-> "Pamela", module_type |-> "Clock"]
QuadEnvelope == [id |-> 10, name |-> "Quadra", module_type |-> "Envelope Generator"]

\* rows whose controls carry the remaining kinds of pattern value
BatumiLFO      == [id |-> 11, name |-> "Batumi", module_type |-> "LFO"]
VeilsVCA       == [id |-> 12, name |-> "Veils",  module_type |-> "VCA"]
ScalesQuantizer == [id |-> 13, name |-> "Scales", module_type |-> "Quantizer"]

Catalog ==
    Library \o <<PlaitsVCO, CloudsEffect, PamClock, QuadEnvelope,
                 BatumiLFO, VeilsVCA, ScalesQuantizer>>

\* the rows the module lists of SpecRoles are drawn from: a module type for
\* every type word of the role assigner's special cases, two types with no
\* role keyword or none at all, and one with two keywords
RoleLibrary ==
    << [id |-> 21, name |-> "Dixie",     module_type |-> "Oscillator"],
       [id |-> 22, name |-> "Polaris",   module_type |-> "Filter"],
       [id |-> 23, name |-> "Quadra",    module_type |-> "Envelope Generator"],
       [id |-> 24, name |-> "Batumi",    module_type |-> "LFO / Filter Bank"],
       [id |-> 25, name |-> "Erbe-Verb", module_type |-> "Reverb"],
       [id |-> 26, name |-> "Mimeophon", module_type |-> "Stereo Delay"],
       [id |-> 27, name |-> "Clouds",    module_type |-> "Granular Processor"],
       [id |-> 28, name |-> "Metropolis", module_type |-> "Sequencer"],
       [id |-> 29, name |-> "Pamela",    module_type |-> "Clock"],
       [id |-> 30, name |-> "Wogglebug", module_type |-> "Random"],
       [id |-> 31, name |-> "Noise Tools", module_type |-> "Noise"],
       [id |-> 32, name |-> "Links",     module_type |-> "Multiple"],
       [id |-> 33, name |-> "Blank",     module_type |-> NULL] >>

ModuleConnections ==
    << [id |-> 11, module_id |-> 1, name |-> "OUT",   connection_type |-> "output"],
       [id |-> 12, module_id |-> 1, name |-> "PITCH", connection_type |-> "input"],
       [id |-> 13, module_id |-> 1, name |-> "MODEL", connection_type |-> "cv"],
       [id |-> 21, module_id |-> 2, name |-> "IN",    connection_type |-> "input"],
       [id |-> 22, module_id |-> 2, name |-> "OUT",   connection_type |-> "output"],
       [id |-> 31, module_id |-> 3, name |-> "SUM",   connection_type |-> "output"],
       [id |-> 32, module_id |-> 3, name |-> "OR",    connection_type |-> "output"],
       [id |-> 41, module_id |-> 4, name |-> "CH1 SIGNAL", connection_type |-> "input"],
       [id |-> 42, module_id |-> 4, name |-> "SUM OUT",    connection_type |-> "output"],
       [id |-> 71, module_id |-> 7, name |-> "OUT",   connection_type |-> "output"],
       [id |-> 72, module_id |-> 7, name |-> "AUX",   connection_type |-> "output"],
       [id |-> 73, module_id |-> 7, name |-> "PITCH", connection_type |-> "input"],
       [id |-> 74, module_id |-> 7, name |-> "TRIG",  connection_type |-> "input"],
       [id |-> 81, module_id |-> 8, name |-> "IN",    connection_type |-> "input"],
       [id |-> 82, module_id |-> 8, name |-> "OUT",   connection_type |-> "output"],
       [id |-> 91, module_id |-> 9, name |-> "OUT 1", connection_type |-> "output"],
       [id |-> 101, module_id |-> 10, name |-> "TRIG", connection_type |-> "input"],
       [id |-> 102, module_id |-> 10, name |-> "ENV",  connection_type |-> "output"] >>

\* ModuleConnection.query.filter_by(module_id=..., connection_type=...).all()
ConnectionsOf(module_id, connection_type) ==
    SelectSeq(ModuleConnections,
              LAMBDA c : c.module_id = module_id
                         /\ c.connection_type = connection_type)

---------------------------------------------------------------------------
(* Backend role assigner: the importance _determine_module_roles assigns   *)

\* module_type.lower() of every type in the catalog, computed once
LowerTypes ==
    [t \in {Catalog[i].module_type : i \in 1..Len(Catalog)}
            \cup {RoleLibrary[i].module_type : i \in 1..Len(RoleLibrary)}
        |-> Lower(t)]

\* module.module_type.lower() if module.module_type else "unknown"
TypeLower(module) ==
    IF module.module_type = NULL \/ module.module_type = ""
    THEN "unknown" ELSE LowerTypes[module.module_type]

\* the keys of module_type_roles, in insertion order
RoleTypeKeys ==
    <<"oscillator", "filter", "envelope", "lfo", "vca", "reverb", "delay",
      "sequencer", "clock", "random", "quantizer", "mixer", "function",
      "granular", "resonator">>

\* module_type_roles: the possible roles of every type key
module_type_roles ==
    [oscillator |-> <<"sound source", "modulation source", "carrier",
                      "modulator">>,
     filter     |-> <<"sound processor", "tone shaper", "resonator">>,
     envelope   |-> <<"modulation source", "amplitude shaper",
                      "transient generator">>,
     lfo        |-> <<"modulation source", "rhythm generator">>,
     vca        |-> <<"amplitude controller", "modulation controller">>,
     reverb     |-> <<"space processor", "ambience generator">>,
     delay      |-> <<"time processor", "echo generator">>,
     sequencer  |-> <<"pattern generator", "rhythm controller",
                      "melody generator">>,
     clock      |-> <<"timing source", "trigger generator">>,
     random     |-> <<"chance generator", "unpredictability source">>,
     quantizer  |-> <<"pitch controller", "scale enforcer">>,
     mixer      |-> <<"signal combiner", "balance controller">>,
     function   |-> <<"modulation source", "signal processor",
                      "envelope generator">>,
     granular   |-> <<"texture generator", "sound mangler">>,
     resonator  |-> <<"tone generator", "harmonic enhancer">>]

\* the role a prioritized combination fixes, by patch type
PrioritizedRole ==
    [ambient    |-> "ambience generator",
     generative |-> "pattern generator",
     percussion |-> "percussion generator",
     bass       |-> "bass generator",
     lead       |-> "lead voice",
     drone      |-> "drone generator"]

\* the (patch type, matching type) combinations that fix the role
PrioritizedTypes ==
    [ambient    |-> {"reverb", "delay", "granular"},
     generative |-> {"random", "sequencer", "clock"},
     percussion |-> {"envelope", "noise", "filter"},
     bass       |-> {"oscillator", "filter"},
     lead       |-> {"oscillator", "filter", "envelope"},
     drone      |-> {"oscillator", "filter", "reverb"}]

\* for type_key in module_type_roles: if type_key in module_type_lower: break
RECURSIVE MatchingRoleType(_, _)
MatchingRoleType(module_type_lower, i) ==
    IF i > Len(RoleTypeKeys) THEN NONE
    ELSE IF Contains(module_type_lower, RoleTypeKeys[i]) THEN RoleTypeKeys[i]
    ELSE MatchingRoleType(module_type_lower, i + 1)

\* the matching type of every lower-cased module type, computed once
MatchingTypes ==
    [t \in {LowerTypes[k] : k \in DOMAIN LowerTypes} \cup {"unknown"} |->
        MatchingRoleType(t, 1)]

\* a choice of role that knows no prioritized combination
RoleChoices_unprioritized(matching_type, patch_type) ==
    IF matching_type = NONE
    THEN {[role |-> "utility", importance |-> 2]}
    ELSE {[role |-> r, importance |-> 3] :
             r \in Range(module_type_roles[matching_type])}

\* the entries module_roles[module.id] can get for a matching type: the
\* default, the prioritized role, or any random.choice(possible_roles)
RoleChoices(matching_type, patch_type) ==
    IF matching_type = NONE
    THEN {[role |-> "utility", importance |-> 2]}
    ELSE IF matching_type \in PrioritizedTypes[patch_type]
    THEN {[role |-> PrioritizedRole[patch_type], importance |-> 5]}
    ELSE {[role |-> r, importance |-> 3] :
             r \in Range(module_type_roles[matching_type])}

\* module_roles[module.id] = entry
PutRole(module_roles, id, entry) ==
    [k \in DOMAIN module_roles \cup {id} |->
        IF k = id THEN entry ELSE module_roles[k]]

MaxRoleModules == 2

\* the module lists handed to _determine_module_roles
RoleModuleLists ==
    UNION {[1..n -> Range(RoleLibrary)] : n \in 0..MaxRoleModules}

\* module_roles[module.id]["importance"]
RoleImportance(module, patch_type) ==
    LET matching_type == MatchingRoleType(TypeLower(module), 1)
    IN  IF matching_type = NONE THEN 2
        ELSE IF matching_type \in PrioritizedTypes[patch_type] THEN 5
        ELSE 3

\* module_roles, reduced to the importance _generate_connections reads
ModuleRoles(modules, patch_type) ==
    [id \in {modules[i].id : i \in 1..Len(modules)} |->
        LET module == CHOOSE m \in Range(modules) : m.id = id
        IN  [importance |-> RoleImportance(module, patch_type)]]

---------------------------------------------------------------------------
(* Backend connection synthesizer: PatchGenerator._generate_connections    *)

connection_patterns ==
    [ambient    |-> <<"oscillator -> filter -> reverb",
                      "lfo -> oscillator parameters",
                      "noise -> reverb">>,
     generative |-> <<"random -> quantizer -> oscillator pitch",
                      "clock -> sequencer -> trigger inputs",
                      "sequencer -> filter cutoff">>,
     percussion |-> <<"noise -> filter -> vca",
                      "envelope -> vca",
                      "clock -> envelope trigger">>,
     bass       |-> <<"oscillator -> filter -> vca",
                      "envelope -> filter cutoff",
                      "envelope -> vca">>,
     lead       |-> <<"oscillator -> filter -> vca -> delay",
                      "envelope -> filter cutoff",
                      "lfo -> oscillator pitch (vibrato)">>,
     drone      |-> <<"oscillator -> filter -> reverb -> delay",
                      "lfo -> filter cutoff",
                      "lfo -> oscillator parameters">>]

\* str.split(sep) for a non-empty separator
RECURSIVE Split(_, _)
Split(str, sep) ==
    IF Contains(str, sep) /\ Len(sep) > 0
    THEN LET i == CHOOSE k \in 1..(Len(str) - Len(sep) + 1) :
                      /\ SubSeq(str, k, k + Len(sep) - 1) = sep
                      /\ \A j \in 1..(k - 1) :
                            SubSeq(str, j, j + Len(sep) - 1) # sep
         IN  <<SubSeq(str, 1, i - 1)>>
             \o Split(SubSeq(str, i + Len(sep), Len(str)), sep)
    ELSE <<str>>

\* str.strip() of a text whose only white space is the blank
RECURSIVE Strip(_)
Strip(str) ==
    IF Len(str) > 0 /\ SubSeq(str, 1, 1) = " "
    THEN Strip(SubSeq(str, 2, Len(str)))
    ELSE IF Len(str) > 0 /\ SubSeq(str, Len(str), Len(str)) = " "
    THEN Strip(SubSeq(str, 1, Len(str) - 1))
    ELSE str

\* str.split(): the words between runs of blanks
Words(str) == SelectSeq(Split(str, " "), LAMBDA w : Len(w) > 0)

\* parts = pattern.split("->"); parts[0].strip(), parts[-1].strip()
ParsePattern(pattern) ==
    LET parts == Split(pattern, "->")
    IN  [parts       |-> Len(parts),
         source_type |-> Strip(parts[1]),
         target_type |-> Strip(parts[Len(parts)])]

\* the parsed patterns of every patch type
ParsedPatterns ==
    [pt \in DOMAIN connection_patterns |->
        [i \in 1..Len(connection_patterns[pt]) |->
            ParsePattern(connection_patterns[pt][i])]]

\* the keys of the dict module_types, in insertion order
RECURSIVE LowerTypeKeys(_, _)
LowerTypeKeys(modules, i) ==
    IF i > Len(modules) THEN <<>>
    ELSE LET rest == LowerTypeKeys(modules, i + 1)
             k    == TypeLower(modules[i])
         IN  <<k>> \o SelectSeq(rest, LAMBDA t : t # k)

\* any(st in module_type for st in type_phrase.split()), computed once for
\* every type of the catalog and every phrase of the patterns
AnyWordIn ==
    LET types   == {TypeLower(Catalog[i]) : i \in 1..Len(Catalog)}
        phrases == UNION {UNION {{ParsedPatterns[pt][i].source_type,
                                  ParsedPatterns[pt][i].target_type} :
                                 i \in 1..Len(ParsedPatterns[pt])} :
                          pt \in DOMAIN ParsedPatterns}
    IN  [module_type \in types |->
            [type_phrase \in phrases |->
                \E w \in Range(Words(type_phrase)) : Contains(module_type, w)]]

\* for module_type, type_modules in module_types.items():
\*     if any(st in module_type for st in type_phrase.split()): extend
RECURSIVE MatchingModules(_, _, _, _)
MatchingModules(modules, keys, type_phrase, i) ==
    IF i > Len(keys) THEN <<>>
    ELSE (IF AnyWordIn[keys[i]][type_phrase]
          THEN SelectSeq(modules, LAMBDA m : TypeLower(m) = keys[i])
          ELSE <<>>)
         \o MatchingModules(modules, keys, type_phrase, i + 1)

\* candidate lists without the cap
Limit2_all(modules) == modules

\* source_modules[:2], target_modules[:2]
Limit2(modules) ==
    SubSeq(modules, 1, IF Len(modules) < 2 THEN Len(modules) ELSE 2)

\* the palette of both passes (the two literals list the same eight colours)
palette ==
    {"red", "blue", "yellow", "green", "orange", "purple", "black", "white"}

\* the colours the if-chain of the template pass can yield
CableColors(source_type, target_type, source_connection) ==
    IF Contains(target_type, "pitch") THEN {"blue"}
    ELSE IF Contains(target_type, "gate") \/ Contains(target_type, "trigger")
    THEN {"orange"}
    ELSE IF Contains(source_type, "clock") THEN {"purple"}
    ELSE IF Contains(Lower(source_connection.name), "audio")
            \/ Contains(Lower(source_connection.name), "out")
    THEN {"black"}
    ELSE palette

\* an importance that looks at the source module only
Max_source(a, b) == a

\* max(source_importance, target_importance)
Max(a, b) == IF a >= b THEN a ELSE b

\* module_roles.get(module.id, {}).get("importance", 3)
ImportanceOf(module_roles, module) ==
    IF module.id \in DOMAIN module_roles
    THEN module_roles[module.id].importance ELSE 3

\* the dict appended to connections, without its description text
PatchConnectionDict(source_module, source_connection, target_module, target_connection, cable_color, importance) ==
    [source_module_id     |-> source_module.id,
     source_connection_id |-> source_connection.id,
     target_module_id     |-> target_module.id,
     target_connection_id |-> target_connection.id,
     cable_color          |-> cable_color,
     importance           |-> importance]

\* what the model keeps of a dict in the list connections: the colour, which
\* no later step reads, is kept in cn_last for the connection the template
\* pass appended last
Entry(dict) ==
    [source_module_id     |-> dict.source_module_id,
     source_connection_id |-> dict.source_connection_id,
     target_module_id     |-> dict.target_module_id,
     target_connection_id |-> dict.target_connection_id,
     importance           |-> dict.importance]

\* a selection that keeps the modules without a jack of the direction
WithJacks_all(modules, connection_type) ==
    [i \in 1..Len(modules) |->
        <<modules[i], ConnectionsOf(modules[i].id, connection_type)>>]

\* modules with outputs / with inputs, as (module, jacks) pairs
WithJacks(modules, connection_type) ==
    SelectSeq([i \in 1..Len(modules) |->
                  <<modules[i], ConnectionsOf(modules[i].id, connection_type)>>],
              LAMBDA pair : Len(pair[2]) > 0)

\* a fallback pass that never finds a connection to be present
AlreadyExists_never(connections, source_module, source_connection, target_module, target_connection) ==
    FALSE

\* any(conn[...] == ... and ... for conn in connections)
AlreadyExists(connections, source_module, source_connection, target_module, target_connection) ==
    \E k \in 1..Len(connections) :
        /\ connections[k].source_module_id = source_module.id
        /\ connections[k].source_connection_id = source_connection.id
        /\ connections[k].target_module_id = target_module.id
        /\ connections[k].target_connection_id = target_connection.id

\* a fallback pass that runs whatever the template pass produced
TooFew_always(connections) == TRUE

\* if len(connections) < 3
TooFew(connections) == Len(connections) < 3

\* a fallback with one round for every pair of the two lists
FallbackRounds_uncapped(modules) ==
    Len(WithJacks(modules, "output")) * Len(WithJacks(modules, "input"))

\* range(min(5, len(output_modules) * len(input_modules)))
FallbackRounds(modules) ==
    LET n == Len(WithJacks(modules, "output")) * Len(WithJacks(modules, "input"))
    IN  IF n < 5 THEN n ELSE 5

---------------------------------------------------------------------------
(* Backend control synthesizer: PatchGenerator._generate_control_settings  *)

\* the rows of ModuleControl; a row without min_value and max_value has
\* both columns NULL
ModuleControls ==
    << [id |-> 101, module_id |-> 1, control_name |-> "Waveform"],
       [id |-> 102, module_id |-> 1, control_name |-> "Detune",
        min_value |-> 0, max_value |-> 12],
       [id |-> 201, module_id |-> 2, control_name |-> "Decay Time",
        min_value |-> 0, max_value |-> 100],
       [id |-> 202, module_id |-> 2, control_name |-> "Dry/Wet Mix"],
       [id |-> 401, module_id |-> 4, control_name |-> "CUTOFF",
        min_value |-> 1, max_value |-> 5],
       [id |-> 402, module_id |-> 4, control_name |-> "Level",
        min_value |-> 0, max_value |-> 10],
       [id |-> 1101, module_id |-> 11, control_name |-> "Rate",
        min_value |-> 0, max_value |-> 20],
       [id |-> 1201, module_id |-> 12, control_name |-> "Gain 1",
        min_value |-> 0, max_value |-> 2],
       [id |-> 1202, module_id |-> 12, control_name |-> "Response",
        min_value |-> 0, max_value |-> 1],
       [id |-> 1301, module_id |-> 13, control_name |-> "Scale"],
       [id |-> 1302, module_id |-> 13, control_name |-> "Root Note"] >>

\* a query that returns the controls of every module
ControlsOf_all(module_id) == ModuleControls

\* ModuleControl.query.filter_by(module_id=module.id).all()
ControlsOf(module_id) ==
    SelectSeq(ModuleControls, LAMBDA c : c.module_id = module_id)

\* control_patterns: per patch type the module-type keys in insertion order,
\* each with its control keys in insertion order
control_patterns ==
    [ambient |->
        << [type_key |-> "filter",
            pattern |-> << <<"cutoff", "low">>, <<"resonance", "medium">> >>],
           [type_key |-> "reverb",
            pattern |-> << <<"decay", "high">>, <<"mix", "high">> >>],
           [type_key |-> "delay",
            pattern |-> << <<"time", "high">>, <<"feedback", "medium">> >>],
           [type_key |-> "lfo",
            pattern |-> << <<"rate", "low">>, <<"depth", "high">> >>] >>,
     generative |->
        << [type_key |-> "random",
            pattern |-> << <<"density", "medium">>, <<"range", "high">> >>],
           [type_key |-> "quantizer",
            pattern |-> << <<"scale", "pentatonic">>, <<"root", "C">> >>],
           [type_key |-> "sequencer",
            pattern |-> << <<"length", "medium">>, <<"variation", "high">> >>],
           [type_key |-> "clock",
            pattern |-> << <<"tempo", "medium">>, <<"swing", "low">> >>] >>,
     percussion |->
        << [type_key |-> "envelope",
            pattern |-> << <<"attack", "low">>, <<"decay", "low">>,
                           <<"sustain", "low">>, <<"release", "medium">> >>],
           [type_key |-> "filter",
            pattern |-> << <<"cutoff", "medium">>, <<"resonance", "high">> >>],
           [type_key |-> "vca",
            pattern |-> << <<"gain", "medium">>, <<"response", "fast">> >>] >>,
     bass |->
        << [type_key |-> "oscillator",
            pattern |-> << <<"waveform", "saw">>, <<"detune", "low">> >>],
           [type_key |-> "filter",
            pattern |-> << <<"cutoff", "low">>, <<"resonance", "medium">> >>],
           [type_key |-> "envelope",
            pattern |-> << <<"attack", "low">>, <<"decay", "medium">>,
                           <<"sustain", "medium">>, <<"release", "medium">> >>] >>,
     lead |->
        << [type_key |-> "oscillator",
            pattern |-> << <<"waveform", "square">>, <<"detune", "medium">> >>],
           [type_key |-> "filter",
            pattern |-> << <<"cutoff", "high">>, <<"resonance", "medium">> >>],
           [type_key |-> "envelope",
            pattern |-> << <<"attack", "low">>, <<"decay", "medium">>,
                           <<"sustain", "medium">>, <<"release", "low">> >>] >>,
     drone |->
        << [type_key |-> "oscillator",
            pattern |-> << <<"waveform", "sine">>, <<"detune", "low">> >>],
           [type_key |-> "filter",
            pattern |-> << <<"cutoff", "medium">>, <<"resonance", "low">> >>],
           [type_key |-> "reverb",
            pattern |-> << <<"decay", "high">>, <<"mix", "high">> >>],
           [type_key |-> "lfo",
            pattern |-> << <<"rate", "very low">>, <<"depth", "medium">> >>] >>]

\* for type_key in control_patterns[patch_type]:
\*     if type_key in module_type_lower: matching_type = type_key; break
\* (the index of the matching key, 0 when there is none)
RECURSIVE MatchingPattern(_, _, _)
MatchingPattern(patch_type, module_type_lower, i) ==
    IF i > Len(control_patterns[patch_type]) THEN 0
    ELSE IF Contains(module_type_lower, control_patterns[patch_type][i].type_key)
    THEN i
    ELSE MatchingPattern(patch_type, module_type_lower, i + 1)

\* the index of the matching pattern of every type of the catalog, computed
\* once
PatternOfType ==
    [patch_type \in DOMAIN control_patterns |->
        [module_type_lower \in {TypeLower(Catalog[i]) : i \in 1..Len(Catalog)} |->
            MatchingPattern(patch_type, module_type_lower, 1)]]

\* for control_key in pattern:
\*     if control_key in control_name_lower: matching_control = ...; break
RECURSIVE MatchingControl(_, _, _)
MatchingControl(pattern, control_name_lower, i) ==
    IF i > Len(pattern) THEN 0
    ELSE IF Contains(control_name_lower, pattern[i][1]) THEN i
    ELSE MatchingControl(pattern, control_name_lower, i + 1)

\* the pattern values that give no numeric value
CategoricalValues ==
    {"saw", "square", "sine", "triangle",
     "pentatonic", "major", "minor", "chromatic",
     "C", "D", "E", "F", "G", "A", "B"}

\* a fraction that is one half for every pattern value
Fraction_half(value) == 50

\* the fraction of the range a pattern value stands for, in hundredths
Fraction(value) ==
    CASE value = "low"       -> 25
      [] value = "medium"    -> 50
      [] value = "high"      -> 75
      [] value = "very low"  -> 10
      [] value = "very high" -> 90
      [] value = "fast"      -> 80
      [] OTHER               -> 50

\* str.capitalize()
Capitalize(str) ==
    IF Len(str) = 0 THEN ""
    ELSE Upper(SubSeq(str, 1, 1)) \o Lower(SubSeq(str, 2, Len(str)))

\* value_text of a pattern value
ValueText(value) ==
    CASE value = "low"       -> "Low (25%)"
      [] value = "medium"    -> "Medium (50%)"
      [] value = "high"      -> "High (75%)"
      [] value = "very low"  -> "Very low (10%)"
      [] value = "very high" -> "Very high (90%)"
      [] value \in {"saw", "square", "sine", "triangle",
                    "pentatonic", "major", "minor", "chromatic"}
                             -> Capitalize(value)
      [] value = "fast"      -> "Fast response"
      [] OTHER               -> value

\* control.min_value and control.max_value are not None
HasRange(control) ==
    "min_value" \in DOMAIN control /\ "max_value" \in DOMAIN control

\* the (control, pattern value) pairs of a module that yield a setting, in
\* the order of the module's controls
MatchedControls(module, patch_type) ==
    LET p == PatternOfType[patch_type][TypeLower(module)]
    IN  IF p = 0 THEN <<>>
        ELSE LET pattern  == control_patterns[patch_type][p].pattern
                 controls == ControlsOf(module.id)
                 hit(c)   == MatchingControl(pattern, Lower(c.control_name), 1)
             IN  [k \in 1..Len(SelectSeq(controls, LAMBDA c : hit(c) # 0)) |->
                    LET c == SelectSeq(controls, LAMBDA x : hit(x) # 0)[k]
                    IN  [control |-> c, value |-> pattern[hit(c)][2]]]

\* control.min_value + (control.max_value - control.min_value) * f with a
\* bound that is None: TypeError
RaisesTypeError(modules, patch_type) ==
    \E i \in 1..Len(modules) :
        \E m \in Range(MatchedControls(modules[i], patch_type)) :
            m.value \notin CategoricalValues /\ ~HasRange(m.control)

\* the dict appended to control_settings, without its description text;
\* value_numeric is in hundredths and absent when it is None
ControlSettingDict(module, m, module_roles) ==
    LET base == [module_id  |-> module.id,
                 control_id |-> m.control.id,
                 value_text |-> ValueText(m.value),
                 importance |-> IF module.id \in DOMAIN module_roles
                                THEN module_roles[module.id].importance
                                ELSE 3]
    IN  IF m.value \in CategoricalValues THEN base
        ELSE [f \in DOMAIN base \cup {"value_numeric"} |->
                IF f = "value_numeric"
                THEN 100 * m.control.min_value
                     + (m.control.max_value - m.control.min_value)
                       * Fraction(m.value)
                ELSE base[f]]

\* _generate_control_settings(modules, module_roles, patch_type) when it
\* returns
RECURSIVE GenerateControlSettings(_, _, _, _)
GenerateControlSettings(modules, module_roles, patch_type, i) ==
    IF i > Len(modules) THEN <<>>
    ELSE LET matched == MatchedControls(modules[i], patch_type)
         IN  [k \in 1..Len(matched) |->
                ControlSettingDict(modules[i], matched[k], module_roles)]
             \o GenerateControlSettings(modules, module_roles, patch_type, i + 1)

---------------------------------------------------------------------------
(* Inputs of generate_patch_ideas                                          *)

\* _mock_get_rack_modules: the rack of a generator without db_connector
\* (its control dicts carry no min_value / max_value)
MockControl(id, type, name) == [id |-> id, type |-> type, name |-> name]

MockRack ==
    << [id |-> 1, name |-> "Plaits", module_type |-> "VCO",
        connections |-> << [id |-> 1, type |-> "input",  name |-> "V/OCT"],
                           [id |-> 2, type |-> "input",  name |-> "TRIG"],
                           [id |-> 3, type |-> "output", name |-> "OUT"],
                           [id |-> 4, type |-> "output", name |-> "AUX"] >>,
        controls |-> << MockControl(1, "knob", "MODEL"),
                        MockControl(2, "knob", "TIMBRE"),
                        MockControl(3, "knob", "MORPH") >>],
       [id |-> 2, name |-> "Clouds", module_type |-> "Effect",
        connections |-> << [id |-> 5, type |-> "input",  name |-> "IN"],
                           [id |-> 6, type |-> "output", name |-> "OUT"],
                           [id |-> 7, type |-> "input",  name |-> "TRIG"],
                           [id |-> 8, type |-> "input",  name |-> "FREEZE"] >>,
        controls |-> << MockControl(4, "knob", "POSITION"),
                        MockControl(5, "knob", "SIZE"),
                        MockControl(6, "knob", "TEXTURE"),
                        MockControl(7, "knob", "BLEND") >>],
       [id |-> 3, name |-> "Maths", module_type |-> "Utility",
        connections |-> << [id |-> 9,  type |-> "input",  name |-> "TRIG 1"],
                           [id |-> 10, type |-> "output", name |-> "EOC 1"],
                           [id |-> 11, type |-> "output", name |-> "OUT 1"],
                           [id |-> 12, type |-> "output", name |-> "OUT 4"] >>,
        controls |-> << MockControl(8, "knob", "RISE"),
                        MockControl(9, "knob", "FALL"),
                        MockControl(10, "switch", "CYCLE") >>] >>

\* the module dicts a db_connector hands over, in the shape app.py gives
\* them (controls with min_value / max_value); the module at position i of
\* a rack has id i and owns the jack and control ids 10*i+1, 10*i+2, ...
ModuleKinds ==
    {"Plaits", "Clouds", "Delay", "Maths", "Mixer", "Blank", "Bare"}

ModuleOfKind(kind, i) ==
    LET jack(k, type, name) == [id |-> 10 * i + k, type |-> type, name |-> name]
        knob(k, name, lo, hi) ==
            [id |-> 10 * i + k, type |-> "knob", name |-> name,
             min_value |-> lo, max_value |-> hi]
    IN  CASE kind = "Plaits" ->
               [id |-> i, name |-> "Plaits", module_type |-> "VCO",
                connections |-> <<jack(1, "input", "V/OCT"), jack(2, "output", "OUT")>>,
                controls |-> <<knob(1, "TIMBRE", 0, 100), knob(2, "FREQ", 0, 100)>>]
          [] kind = "Clouds" ->
               [id |-> i, name |-> "Clouds", module_type |-> "Effect",
                connections |-> <<jack(1, "input", "IN"), jack(2, "output", "OUT")>>,
                controls |-> <<knob(1, "SIZE", 0, 100), knob(2, "BLEND", 0, 100)>>]
          [] kind = "Delay" ->
               [id |-> i, name |-> "Delay", module_type |-> "Effect",
                connections |-> <<jack(1, "input", "Signal"), jack(2, "output", "Wet")>>,
                controls |-> <<knob(1, "Dry/Wet", 1, 10)>>]
          [] kind = "Maths" ->
               [id |-> i, name |-> "Maths", module_type |-> "Utility",
                connections |-> <<jack(1, "input", "TRIG 1"), jack(2, "output", "OUT 1")>>,
                controls |-> <<knob(1, "RISE", 0, 100)>>]
          [] kind = "Mixer" ->
               [id |-> i, name |-> "Mixer", module_type |-> "Mixer",
                connections |-> <<jack(1, "input", "CH 1"), jack(2, "output", "SUM")>>,
                controls |-> <<>>]
          [] kind = "Blank" ->
               [id |-> i, name |-> "Blank", module_type |-> "Unknown",
                connections |-> <<>>, controls |-> <<>>]
          [] kind = "Bare" ->
               [id |-> i, name |-> "Bare", module_type |-> MISSING,
                connections |-> <<>>, controls |-> <<>>]

MaxRackModules == 2

Racks ==
    UNION {{[i \in 1..n |-> ModuleOfKind(f[i], i)] : f \in [1..n -> ModuleKinds]} :
              n \in 0..MaxRackModules}

\* the ideas a connector returns: with a score in tenths, or without one
MaxDbIdeas == 2

DbScores == {2, 9}

\* stands for an idea dict without a 'relevance_score' key
NOSCORE == -1

DbIdea(key, score) ==
    LET idea == [key |-> key, title |-> "Stored patch",
                 description |-> "A stored patch idea",
                 patch_type |-> "ambient", complexity |-> 3,
                 connections |-> <<>>, control_settings |-> <<>>,
                 origin |-> "db"]
    IN  IF score = NOSCORE THEN idea
        ELSE [k \in DOMAIN idea \cup {"relevance_score"} |->
                 IF k = "relevance_score" THEN score ELSE idea[k]]

DbIdeaLists ==
    UNION {{[i \in 1..n |-> DbIdea(i, f[i])] : f \in [1..n -> DbScores \cup {NOSCORE}]} :
              n \in 0..MaxDbIdeas}

IdeaPrompts == {"ambient pad", "xyz", "deep bass"}

MaxResults == 2

---------------------------------------------------------------------------
(* ModularGrid parser: ModularGridParser.parse_url, _scrape_rack_page      *)

Digits == {"0", "1", "2", "3", "4", "5", "6", "7", "8", "9"}

RackPath == "/racks/view/"

\* the starts of the text k within the text s
Occurrences(s, k) ==
    {i \in 1..Len(s) : /\ i + Len(k) - 1 <= Len(s)
                       /\ SubSeq(s, i, i + Len(k) - 1) = k}

\* a search that accepts the rack path without a digit after it
RackIdMatch_anypath(url) ==
    LET starts == Occurrences(url, RackPath)
    IN  IF starts = {} THEN 0
        ELSE CHOOSE i \in starts : \A j \in starts : i <= j

\* re.search(r'/racks/view/(\d+)', url): the start of the leftmost match, 0
\* when there is none
RackIdMatch(url) ==
    LET starts == {i \in Occurrences(url, RackPath) :
                      /\ i + Len(RackPath) <= Len(url)
                      /\ SubSeq(url, i + Len(RackPath), i + Len(RackPath))
                         \in Digits}
    IN  IF starts = {} THEN 0
        ELSE CHOOSE i \in starts : \A j \in starts : i <= j

\* the longest run of digits of url from position i on
RECURSIVE DigitRun(_, _)
DigitRun(url, i) ==
    IF i <= Len(url) /\ SubSeq(url, i, i) \in Digits
    THEN SubSeq(url, i, i) \o DigitRun(url, i + 1)
    ELSE ""

\* rack_id_match.group(1)
RackId(url) == DigitRun(url, RackIdMatch(url) + Len(RackPath))

\* the URLs parse_url is called with
Urls ==
    {"https://www.modulargrid.net/e/racks/view/123456",
     "https://modulargrid.net/e/racks/view/555555",
     "https://www.example.com/e/racks/view/123456",
     "modulargrid.net/e/racks/view/7?x",
     "https://www.modulargrid.net/e/modules/view/123",
     "https://www.example.com/rack/123456",
     "https://www.modulargrid.net/e/racks/view/",
     "invalid_url",
     ""}

\* rack_id_match and rack_id of every URL, computed once
UrlMatches ==
    [url \in Urls |-> [match |-> RackIdMatch(url), rack_id |-> RackId(url)]]

base_url == "https://www.modulargrid.net"

\* url.startswith('http')
StartsWithHttp(url) == Len(url) >= 4 /\ SubSeq(url, 1, 4) = "http"

\* the URL handed to _scrape_rack_page
ScrapeUrl(url, rack_id) ==
    IF StartsWithHttp(url) THEN url
    ELSE base_url \o "/e/racks/view/" \o rack_id

\* what requests.get and the page give: a failed request, or a page with its
\* title element and the module entries found in it
HttpResponses ==
    {[status |-> "error", message |-> "Test error"],
     [status |-> "ok", rack_title |-> "Test Rack",
      modules |-> <<[name |-> "Plaits", manufacturer |-> "Mutable Instruments"],
                    [name |-> "Maths", manufacturer |-> "Make Noise"]>>],
     [status |-> "ok",
      modules |-> <<[name |-> "Maths", manufacturer |-> "Make Noise"]>>],
     [status |-> "ok", rack_title |-> "Empty Rack", modules |-> <<>>]}

\* rack_name_elem.text.strip() if rack_name_elem else "Unnamed Rack"
RackName(response) ==
    IF "rack_title" \in DOMAIN response THEN response.rack_title
    ELSE "Unnamed Rack"

\* _scrape_rack_page: every exception, the ValueError for a page without
\* modules included, ends in the except branch
ScrapeRackPage(response) ==
    IF response.status = "error"
    THEN [rack_name |-> "Error scraping ModularGrid page: " \o response.message,
          modules |-> <<>>]
    ELSE IF Len(response.modules) = 0
    THEN [rack_name |-> "Error scraping ModularGrid page: "
                        \o "No modules found in the ModularGrid rack",
          modules |-> <<>>]
    ELSE [rack_name |-> RackName(response), modules |-> response.modules]

\* Module.query.filter_by(name=..., manufacturer=...).first(): its index, or 0
FindModule(modules, module_info) ==
    LET found == {i \in 1..Len(modules) :
                     /\ modules[i].name = module_info.name
                     /\ modules[i].manufacturer = module_info.manufacturer}
    IN  IF found = {} THEN 0
        ELSE CHOOSE i \in found : \A j \in found : i <= j

\* the modules table after the get-or-create of every scraped module
RECURSIVE StoreModules(_, _, _)
StoreModules(modules, infos, i) ==
    IF i > Len(infos) THEN modules
    ELSE StoreModules(
             IF FindModule(modules, infos[i]) # 0 THEN modules
             ELSE Append(modules, [id |-> Len(modules) + 1,
                                   name |-> infos[i].name,
                                   manufacturer |-> infos[i].manufacturer,
                                   module_type |-> "Unknown",
                                   hp_width |-> 10]),
             infos, i + 1)

\* UserRack.query.filter_by(modulargrid_id=rack_id).first(): its index, or 0
ExistingRack(user_racks, rack_id) ==
    LET found == {i \in 1..Len(user_racks) :
                     user_racks[i].modulargrid_id = rack_id}
    IN  IF found = {} THEN 0
        ELSE CHOOSE i \in found : \A j \in found : i <= j

\* [rm.module.to_dict() for rm in existing_rack.modules], by module name
RackModuleNames(db, rack_id) ==
    LET rows == SelectSeq(db.rack_modules, LAMBDA rm : rm.rack_id = rack_id)
    IN  [k \in 1..Len(rows) |-> db.modules[rows[k].module_id].name]

EmptyRackDb == [user_racks |-> <<>>, modules |-> <<>>, rack_modules |-> <<>>]

\* a database that already holds one module
SeededRackDb ==
    [user_racks |-> <<>>,
     modules |-> <<[id |-> 1, name |-> "Plaits",
                    manufacturer |-> "Mutable Instruments",
                    module_type |-> "Oscillator", hp_width |-> 12]>>,
     rack_modules |-> <<>>]

MaxCalls == 2

---------------------------------------------------------------------------
(* Manual cache: CacheManager.get_manual_content, which generate_patch     *)
(* calls for every resolved module that has a manual_url                    *)

\* Module.manual_url of the rows that have one: a page and a PDF
ManualUrls ==
    (2 :> "https://example.com/verb/manual/")
    @@ (3 :> "http://www.makenoisemusic.com/manuals/MATHSmanual.pdf")

\* Module.manual_content and Module.manual_last_updated as the seed leaves
\* them
ModuleManuals ==
    [id \in DOMAIN ManualUrls |->
        [manual_content |-> NULL, manual_last_updated |-> NULL]]

\* os.path.splitext(manual_url)[1].lower() in ['.pdf', '.doc', '.docx']
IsDocumentUrl(manual_url) ==
    \/ EndsWith(Lower(manual_url), ".pdf")
    \/ EndsWith(Lower(manual_url), ".doc")
    \/ EndsWith(Lower(manual_url), ".docx")

\* the Module rows after get_manual_content(module_id, manual_url); fetched
\* tells whether requests.get answers.  A row updated by this call is less
\* than 30 days old.
get_manual_content(manuals, module_id, fetched) ==
    LET module     == manuals[module_id]
        manual_url == ManualUrls[module_id]
    IN  IF module.manual_content # NULL /\ module.manual_last_updated # NULL
        THEN manuals
        ELSE IF IsDocumentUrl(manual_url)
        THEN [manuals EXCEPT ![module_id] =
                 [manual_content |-> "Manual available at: " \o manual_url,
                  manual_last_updated |-> "utcnow"]]
        ELSE IF fetched
        THEN [manuals EXCEPT ![module_id] =
                 [manual_content |-> "text of " \o manual_url,
                  manual_last_updated |-> "utcnow"]]
        ELSE manuals

\* the gathering loop of generate_patch: for module in module_objects:
\* if module.manual_url: get_manual_content(module.id, module.manual_url)
RECURSIVE Gather(_, _, _, _)
Gather(manuals, module_objects, i, fetched) ==
    IF i > Len(module_objects) THEN manuals
    ELSE Gather(IF module_objects[i].id \in DOMAIN ManualUrls
                THEN get_manual_content(manuals, module_objects[i].id, fetched)
                ELSE manuals,
                module_objects, i + 1, fetched)

---------------------------------------------------------------------------
(* Idle values of the components a specification does not exercise         *)

ClsIdle ==
    /\ prompt = ""
    /\ cls_pc = "idle"
    /\ detected = NONE
    /\ max_types = <<>>

RkIdle ==
    /\ rk_modules = <<>>
    /\ rk_type = NONE
    /\ rk_pc = "idle"
    /\ rk_sorted = <<>>

GiIdle ==
    /\ gi_connector = FALSE
    /\ gi_rack = <<>>
    /\ gi_prompt = ""
    /\ gi_complexity = 0
    /\ gi_max_results = 0
    /\ gi_db_ideas = <<>>
    /\ gi_pc = "idle"
    /\ gi_patch_type = NONE
    /\ gi_result = <<>>
    /\ gi_error = NONE

CnIdle ==
    /\ cn_modules = <<>>
    /\ cn_patch_type = NONE
    /\ cn_roles = <<>>
    /\ cn_pc = "idle"
    /\ cn_pattern = 0
    /\ cn_source = 0
    /\ cn_target = 0
    /\ cn_iter = 0
    /\ cn_template_count = 0
    /\ cn_connections = <<>>
    /\ cn_last = [pass |-> "none"]

GpIdle ==
    /\ gp_request = <<>>
    /\ gp_prompt = ""
    /\ gp_pc = "idle"
    /\ gp_error = NONE
    /\ gp_module_objects = <<>>
    /\ gp_patch_type = NONE
    /\ gp_settings = <<>>
    /\ gp_db = [patch_ideas |-> <<>>, patch_modules |-> <<>>,
                patch_connections |-> <<>>, patch_control_settings |-> <<>>,
                modules |-> ModuleManuals]
    /\ gp_result = <<>>

RoIdle ==
    /\ ro_modules = <<>>
    /\ ro_patch_type = NONE
    /\ ro_pc = "idle"
    /\ ro_i = 1
    /\ ro_roles = <<>>

MgIdle ==
    /\ mg_db = EmptyRackDb
    /\ mg_calls = 0
    /\ mg_call = [op |-> "none", pc |-> "idle"]

---------------------------------------------------------------------------
(* SpecClassify                                                            *)

InitClassify ==
    /\ prompt \in Prompts
    /\ cls_pc = "start"
    /\ detected = NONE
    /\ max_types = <<>>
    /\ RkIdle
    /\ GiIdle
    /\ CnIdle
    /\ GpIdle
    /\ RoIdle
    /\ MgIdle

\* _determine_patch_type(prompt)
DeterminePatchType ==
    /\ cls_pc = "start"
    /\ LET prompt_lower == Lower(prompt)
           mention      == FirstMention(prompt_lower, 1)
           cnt          == counts(prompt_lower)
           max_count    == MaxCount(cnt)
       IN  IF mention # NONE
           THEN /\ detected' = mention
                /\ max_types' = <<>>
           ELSE IF max_count > 0
           THEN /\ max_types' = MaxTypes(cnt, max_count, 1)
                /\ \E i \in 1..Len(max_types') : detected' = max_types'[i]
           ELSE /\ detected' = DefaultPatchType
                /\ max_types' = <<>>
    /\ cls_pc' = "determined"
    /\ UNCHANGED <<prompt, rkVars, giVars, cnVars, gpVars,
                   roVars, mgVars>>

\* _analyze_prompt(prompt)
AnalyzePromptCall ==
    /\ cls_pc = "start"
    /\ detected' = AnalyzePrompt(prompt)
    /\ cls_pc' = "analyzed"
    /\ UNCHANGED <<prompt, max_types, rkVars, giVars, cnVars, gpVars,
                   roVars, mgVars>>

NextClassify == DeterminePatchType \/ AnalyzePromptCall

SpecClassify == InitClassify /\ [][NextClassify]_vars

---------------------------------------------------------------------------
(* SpecRank                                                                *)

InitRank ==
    /\ rk_modules \in ModuleLists
    /\ rk_type \in Range(MockTypeOrder)
    /\ rk_pc = "start"
    /\ rk_sorted = <<>>
    /\ ClsIdle
    /\ GiIdle
    /\ CnIdle
    /\ GpIdle
    /\ RoIdle
    /\ MgIdle

\* _find_relevant_modules(modules, patch_type)
FindRelevantModulesCall ==
    /\ rk_pc = "start"
    /\ rk_sorted' = FindRelevantModules(rk_modules, rk_type)
    /\ rk_pc' = "ranked"
    /\ UNCHANGED <<rk_modules, rk_type, clsVars, giVars, cnVars, gpVars,
                   roVars, mgVars>>

NextRank == FindRelevantModulesCall

SpecRank == InitRank /\ [][NextRank]_vars

---------------------------------------------------------------------------
(* SpecIdeas                                                               *)

\* data.get('complexity', 3): the default, and values a request can carry
\* on either side of 1..5
Complexities == {3, 0, 9}

InitIdeas ==
    /\ gi_connector \in BOOLEAN
    /\ IF gi_connector
       THEN gi_rack \in Racks /\ gi_db_ideas \in DbIdeaLists
       ELSE gi_rack = MockRack /\ gi_db_ideas = <<>>
    /\ gi_prompt \in IdeaPrompts
    /\ gi_complexity \in Complexities
    /\ gi_max_results \in (-1)..MaxResults
    /\ gi_pc = "start"
    /\ gi_patch_type = NONE
    /\ gi_result = <<>>
    /\ gi_error = NONE
    /\ ClsIdle
    /\ RkIdle
    /\ CnIdle
    /\ GpIdle
    /\ RoIdle
    /\ MgIdle

\* generate_patch_ideas on a rack without modules: raise ValueError
GenerateRaisesValueError ==
    /\ gi_pc = "start"
    /\ Len(gi_rack) = 0
    /\ gi_pc' = "raised"
    /\ gi_error' = "ValueError"
    /\ UNCHANGED <<gi_connector, gi_rack, gi_prompt, gi_complexity,
                   gi_max_results, gi_db_ideas, gi_patch_type, gi_result,
                   clsVars, rkVars, cnVars, gpVars,
                   roVars, mgVars>>

\* generate_patch_ideas, the generator function indexing m['module_type'] of
\* a module dict that has no such key: KeyError
GenerateRaisesKeyError ==
    /\ gi_pc = "start"
    /\ Len(gi_rack) > 0
    /\ LET patch_type == AnalyzePrompt(gi_prompt)
           relevant_modules == FindRelevantModules(gi_rack, patch_type)
       IN  /\ patch_type \in {"ambient", "generative"}
           /\ RaisesKeyError(relevant_modules)
           /\ gi_patch_type' = patch_type
    /\ gi_pc' = "raised"
    /\ gi_error' = "KeyError"
    /\ UNCHANGED <<gi_connector, gi_rack, gi_prompt, gi_complexity,
                   gi_max_results, gi_db_ideas, gi_result, clsVars, rkVars,
                   cnVars, gpVars,
                   roVars, mgVars>>

\* generate_patch_ideas(rack_id, prompt, complexity, max_results) running to
\* its return statement
GeneratePatchIdeas ==
    /\ gi_pc = "start"
    /\ Len(gi_rack) > 0
    /\ LET patch_type == AnalyzePrompt(gi_prompt)
           relevant_modules == FindRelevantModules(gi_rack, patch_type)
           db_patch_ideas == IF gi_connector THEN gi_db_ideas ELSE <<>>
           draws == IF patch_type = "ambient"
                    THEN AmbientDraws(relevant_modules) ELSE 0
       IN  /\ ~(patch_type \in {"ambient", "generative"}
                /\ RaisesKeyError(relevant_modules))
           /\ \E colors \in [1..draws -> Range(cable_colors)] :
                LET generated_ideas ==
                        CASE patch_type = "ambient" ->
                               GenerateAmbientPatch(relevant_modules,
                                                    gi_complexity, colors)
                          [] patch_type \in {"percussion", "bass", "lead",
                                             "drone", "techno"} -> <<>>
                          [] OTHER ->
                               GenerateGenerativePatch(relevant_modules,
                                                       gi_complexity)
                    all_ideas == db_patch_ideas \o generated_ideas
                IN  gi_result' = Slice(SortByScore(all_ideas, Len(all_ideas)),
                                       gi_max_results)
           /\ gi_patch_type' = patch_type
    /\ gi_pc' = "returned"
    /\ UNCHANGED <<gi_connector, gi_rack, gi_prompt, gi_complexity,
                   gi_max_results, gi_db_ideas, gi_error, clsVars, rkVars,
                   cnVars, gpVars,
                   roVars, mgVars>>

NextIdeas ==
    \/ GenerateRaisesValueError
    \/ GenerateRaisesKeyError
    \/ GeneratePatchIdeas

SpecIdeas == InitIdeas /\ [][NextIdeas]_vars

---------------------------------------------------------------------------
(* SpecConn: one call of the backend _generate_connections                 *)

MaxConnModules == 2

\* the module lists generate_patch resolves from module ids or from a rack;
\* a rack may hold the same module more than once
ScenarioLists ==
    {<<PlaitsVCO, CloudsEffect>>, <<PamClock, QuadEnvelope>>,
     <<Library[3], Library[6]>>,
     <<Library[1], Library[3], Library[1], Library[2], Library[2]>>}

ConnModuleLists ==
    UNION {[1..n -> Range(Library)] : n \in 0..MaxConnModules}
    \cup ScenarioLists

InitConn ==
    /\ cn_modules \in ConnModuleLists
    /\ cn_patch_type \in DOMAIN connection_patterns
    /\ cn_roles = ModuleRoles(cn_modules, cn_patch_type)
    /\ cn_pc = "template"
    /\ cn_pattern = 1
    /\ cn_source = 1
    /\ cn_target = 1
    /\ cn_iter = 0
    /\ cn_template_count = 0
    /\ cn_connections = <<>>
    /\ cn_last = [pass |-> "none"]
    /\ ClsIdle
    /\ RkIdle
    /\ GiIdle
    /\ GpIdle
    /\ RoIdle
    /\ MgIdle

\* the pattern the template pass is at, and its candidate modules
CurrentPattern == ParsedPatterns[cn_patch_type][cn_pattern]

source_modules ==
    MatchingModules(cn_modules, LowerTypeKeys(cn_modules, 1),
                    CurrentPattern.source_type, 1)

target_modules ==
    MatchingModules(cn_modules, LowerTypeKeys(cn_modules, 1),
                    CurrentPattern.target_type, 1)

InTemplate ==
    /\ cn_pc = "template"
    /\ cn_pattern <= Len(connection_patterns[cn_patch_type])

InPair ==
    /\ InTemplate
    /\ CurrentPattern.parts >= 2
    /\ Len(source_modules) > 0
    /\ Len(target_modules) > 0

\* the loop variables move to the next (source, target) pair, or to the next
\* pattern after the last pair
NextPair ==
    IF cn_target < Len(Limit2(target_modules))
    THEN /\ cn_target' = cn_target + 1
         /\ UNCHANGED <<cn_pattern, cn_source>>
    ELSE IF cn_source < Len(Limit2(source_modules))
    THEN /\ cn_source' = cn_source + 1
         /\ cn_target' = 1
         /\ UNCHANGED cn_pattern
    ELSE /\ cn_pattern' = cn_pattern + 1
         /\ cn_source' = 1
         /\ cn_target' = 1

cnArgs == <<cn_modules, cn_patch_type, cn_roles>>

\* a pattern without a source or without a target module: continue
TemplateNoModules ==
    /\ InTemplate
    /\ ~InPair
    /\ cn_pattern' = cn_pattern + 1
    /\ cn_last' = [pass |-> "template", outcome |-> "no modules"]
    /\ UNCHANGED <<cnArgs, cn_pc, cn_source, cn_target, cn_iter,
                   cn_template_count, cn_connections, clsVars, rkVars, giVars,
                   gpVars, roVars, mgVars>>

\* source_module.id == target_module.id: continue
TemplateSameModule ==
    /\ InPair
    /\ Limit2(source_modules)[cn_source].id = Limit2(target_modules)[cn_target].id
    /\ NextPair
    /\ cn_last' = [pass |-> "template", outcome |-> "same module"]
    /\ UNCHANGED <<cnArgs, cn_pc, cn_iter, cn_template_count, cn_connections,
                   clsVars, rkVars, giVars,
                   gpVars, roVars, mgVars>>

\* not source_connections or not target_connections: continue
TemplateNoJacks ==
    /\ InPair
    /\ LET source_module == Limit2(source_modules)[cn_source]
           target_module == Limit2(target_modules)[cn_target]
       IN  /\ source_module.id # target_module.id
           /\ \/ Len(ConnectionsOf(source_module.id, "output")) = 0
              \/ Len(ConnectionsOf(target_module.id, "input")) = 0
    /\ NextPair
    /\ cn_last' = [pass |-> "template", outcome |-> "no jacks"]
    /\ UNCHANGED <<cnArgs, cn_pc, cn_iter, cn_template_count, cn_connections,
                   clsVars, rkVars, giVars,
                   gpVars, roVars, mgVars>>

\* the body of the pair loop appending a connection
TemplateConnect ==
    /\ InPair
    /\ LET source_module == Limit2(source_modules)[cn_source]
           target_module == Limit2(target_modules)[cn_target]
           source_connections == ConnectionsOf(source_module.id, "output")
           target_connections == ConnectionsOf(target_module.id, "input")
       IN  /\ source_module.id # target_module.id
           /\ \E source_connection \in Range(source_connections),
                 target_connection \in Range(target_connections) :
                 \E cable_color \in CableColors(CurrentPattern.source_type,
                                                CurrentPattern.target_type,
                                                source_connection) :
                    LET source_importance == ImportanceOf(cn_roles, source_module)
                        target_importance == ImportanceOf(cn_roles, target_module)
                        importance == Max(source_importance, target_importance)
                        dict == PatchConnectionDict(
                                    source_module, source_connection,
                                    target_module, target_connection,
                                    cable_color, importance)
                    IN  /\ cn_connections' = Append(cn_connections, Entry(dict))
                        /\ cn_last' = [pass |-> "template",
                                       outcome |-> "connected",
                                       pattern |-> cn_pattern,
                                       source_connection |-> source_connection,
                                       dict |-> dict]
    /\ NextPair
    /\ UNCHANGED <<cnArgs, cn_pc, cn_iter, cn_template_count,
                   clsVars, rkVars, giVars,
                   gpVars, roVars, mgVars>>

\* after the last pattern with three or more connections: return connections
ReturnAfterTemplate ==
    /\ cn_pc = "template"
    /\ cn_pattern > Len(connection_patterns[cn_patch_type])
    /\ ~TooFew(cn_connections)
    /\ cn_pc' = "done"
    /\ cn_template_count' = Len(cn_connections)
    /\ UNCHANGED <<cnArgs, cn_pattern, cn_source, cn_target, cn_iter,
                   cn_connections, cn_last, clsVars, rkVars, giVars,
                   gpVars, roVars, mgVars>>

\* after the last pattern with fewer than three connections: the fallback
EnterFallback ==
    /\ cn_pc = "template"
    /\ cn_pattern > Len(connection_patterns[cn_patch_type])
    /\ TooFew(cn_connections)
    /\ cn_pc' = "fallback"
    /\ cn_template_count' = Len(cn_connections)
    /\ UNCHANGED <<cnArgs, cn_pattern, cn_source, cn_target, cn_iter,
                   cn_connections, cn_last, clsVars, rkVars, giVars,
                   gpVars, roVars, mgVars>>

InFallback ==
    /\ cn_pc = "fallback"
    /\ cn_iter < FallbackRounds(cn_modules)

\* a fallback iteration drawing the same module twice: continue
FallbackSameModule ==
    /\ InFallback
    /\ \E out \in Range(WithJacks(cn_modules, "output")),
          inp \in Range(WithJacks(cn_modules, "input")) :
          out[1].id = inp[1].id
    /\ cn_iter' = cn_iter + 1
    /\ cn_last' = [pass |-> "fallback", outcome |-> "same module"]
    /\ UNCHANGED <<cnArgs, cn_pc, cn_pattern, cn_source, cn_target,
                   cn_template_count, cn_connections, clsVars, rkVars, giVars,
                   gpVars, roVars, mgVars>>

\* a fallback iteration drawing a connection that already exists: continue
FallbackExists ==
    /\ InFallback
    /\ \E out \in Range(WithJacks(cn_modules, "output")),
          inp \in Range(WithJacks(cn_modules, "input")) :
          /\ out[1].id # inp[1].id
          /\ \E source_connection \in Range(out[2]),
                target_connection \in Range(inp[2]) :
                /\ AlreadyExists(cn_connections, out[1], source_connection,
                                 inp[1], target_connection)
                /\ cn_last' = [pass |-> "fallback", outcome |-> "exists",
                               source_module_id |-> out[1].id,
                               source_connection_id |-> source_connection.id,
                               target_module_id |-> inp[1].id,
                               target_connection_id |-> target_connection.id]
    /\ cn_iter' = cn_iter + 1
    /\ UNCHANGED <<cnArgs, cn_pc, cn_pattern, cn_source, cn_target,
                   cn_template_count, cn_connections, clsVars, rkVars, giVars,
                   gpVars, roVars, mgVars>>

\* a fallback iteration appending a connection
FallbackConnect ==
    /\ InFallback
    /\ \E out \in Range(WithJacks(cn_modules, "output")),
          inp \in Range(WithJacks(cn_modules, "input")) :
          /\ out[1].id # inp[1].id
          /\ \E source_connection \in Range(out[2]),
                target_connection \in Range(inp[2]) :
                /\ ~AlreadyExists(cn_connections, out[1], source_connection,
                                  inp[1], target_connection)
                /\ \E cable_color \in palette :
                      LET dict == PatchConnectionDict(
                                      out[1], source_connection,
                                      inp[1], target_connection,
                                      cable_color, 3)
                      IN  /\ cn_connections' = Append(cn_connections, Entry(dict))
                          /\ cn_last' = [pass |-> "fallback",
                                         outcome |-> "connected",
                                         dict |-> Entry(dict)]
    /\ cn_iter' = cn_iter + 1
    /\ UNCHANGED <<cnArgs, cn_pc, cn_pattern, cn_source, cn_target,
                   cn_template_count, clsVars, rkVars, giVars,
                   gpVars, roVars, mgVars>>

\* the fallback loop is exhausted: return connections
ReturnAfterFallback ==
    /\ cn_pc = "fallback"
    /\ cn_iter = FallbackRounds(cn_modules)
    /\ cn_pc' = "done"
    /\ UNCHANGED <<cnArgs, cn_pattern, cn_source, cn_target, cn_iter,
                   cn_template_count, cn_connections, cn_last,
                   clsVars, rkVars, giVars,
                   gpVars, roVars, mgVars>>

NextConn ==
    \/ TemplateNoModules
    \/ TemplateSameModule
    \/ TemplateNoJacks
    \/ TemplateConnect
    \/ ReturnAfterTemplate
    \/ EnterFallback
    \/ FallbackSameModule
    \/ FallbackExists
    \/ FallbackConnect
    \/ ReturnAfterFallback

SpecConn == InitConn /\ [][NextConn]_vars

MaxFairModules == 1

\* the module lists of the calls whose termination is checked
FairModuleLists ==
    UNION {[1..n -> Range(Library)] : n \in 0..MaxFairModules}
    \cup ScenarioLists

InitConnFair ==
    /\ cn_modules \in FairModuleLists
    /\ cn_patch_type \in DOMAIN connection_patterns
    /\ cn_roles = ModuleRoles(cn_modules, cn_patch_type)
    /\ cn_pc = "template"
    /\ cn_pattern = 1
    /\ cn_source = 1
    /\ cn_target = 1
    /\ cn_iter = 0
    /\ cn_template_count = 0
    /\ cn_connections = <<>>
    /\ cn_last = [pass |-> "none"]
    /\ ClsIdle
    /\ RkIdle
    /\ GiIdle
    /\ GpIdle
    /\ RoIdle
    /\ MgIdle

\* the call runs on: the interpreter takes a step while one is possible
SpecConnFair == InitConnFair /\ [][NextConn]_vars /\ WF_vars(NextConn)

---------------------------------------------------------------------------
(* SpecPatch: one call of the backend generate_patch; between its start    *)
(* and its control settings run the steps of _generate_connections         *)

MaxRequest == 2

\* Module.query.get(id): the row with that id, as a list of zero or one row
QueryGet(id) == SelectSeq(Catalog, LAMBDA row : row.id = id)

\* the values a caller puts in the modules argument: an id, a dict with an
\* 'id', a module object, or a value that is none of these; id 99 names no
\* row
RequestItems ==
    { [form |-> "int", id |-> 2], [form |-> "int", id |-> 6],
      [form |-> "int", id |-> 99], [form |-> "dict", id |-> 4],
      [form |-> "object", module |-> Catalog[3]], [form |-> "other"] }

RequestLists == UNION {[1..n -> RequestItems] : n \in 0..MaxRequest}

PatchPrompts == {"", "deep bass", "evolving", "an ambient pad"}

\* the resolution loop of generate_patch
RECURSIVE Resolve(_, _)
Resolve(modules, i) ==
    IF i > Len(modules) THEN <<>>
    ELSE (CASE modules[i].form \in {"int", "dict"} -> QueryGet(modules[i].id)
            [] modules[i].form = "object" -> <<modules[i].module>>
            [] OTHER -> <<>>)
         \o Resolve(modules, i + 1)

\* generate_patch that raises although module_objects is empty
NoValidModules_never(module_objects) == FALSE

\* not module_objects
NoValidModules(module_objects) == Len(module_objects) = 0

\* the archetypes _determine_patch_type(prompt) can return
PatchTypesFor(p) ==
    LET prompt_lower == Lower(p)
        mention      == FirstMention(prompt_lower, 1)
        cnt          == counts(prompt_lower)
        max_count    == MaxCount(cnt)
    IN  IF mention # NONE THEN {mention}
        ELSE IF max_count > 0 THEN Range(MaxTypes(cnt, max_count, 1))
        ELSE {DefaultPatchType}

\* the patch tables empty, the Module rows as seeded
EmptyTables ==
    [patch_ideas |-> <<>>, patch_modules |-> <<>>,
     patch_connections |-> <<>>, patch_control_settings |-> <<>>,
     modules |-> ModuleManuals]

InitPatch ==
    /\ gp_request \in RequestLists
    /\ gp_prompt \in PatchPrompts
    /\ gp_pc = "start"
    /\ gp_error = NONE
    /\ gp_module_objects = <<>>
    /\ gp_patch_type = NONE
    /\ gp_settings = <<>>
    /\ gp_db = EmptyTables
    /\ gp_result = <<>>
    /\ ClsIdle
    /\ RkIdle
    /\ GiIdle
    /\ CnIdle
    /\ RoIdle
    /\ MgIdle

gpArgs == <<gp_request, gp_prompt>>

\* no module resolved: raise ValueError("No valid modules provided")
PatchRaisesValueError ==
    /\ gp_pc = "start"
    /\ NoValidModules(Resolve(gp_request, 1))
    /\ gp_pc' = "raised"
    /\ gp_error' = "ValueError"
    /\ \E patch_type \in PatchTypesFor(gp_prompt) : gp_patch_type' = patch_type
    /\ UNCHANGED <<gpArgs, gp_module_objects, gp_settings, gp_db, gp_result,
                   clsVars, rkVars, giVars, cnVars, roVars, mgVars>>

\* classification, resolution, the gathering of manuals, roles, and the
\* entry to _generate_connections
PatchStart ==
    /\ gp_pc = "start"
    /\ ~NoValidModules(Resolve(gp_request, 1))
    /\ \E patch_type \in PatchTypesFor(gp_prompt) :
          /\ gp_patch_type' = patch_type
          /\ cn_patch_type' = patch_type
          /\ cn_roles' = ModuleRoles(Resolve(gp_request, 1), patch_type)
    /\ gp_module_objects' = Resolve(gp_request, 1)
    /\ cn_modules' = Resolve(gp_request, 1)
    /\ cn_pc' = "template"
    /\ cn_pattern' = 1
    /\ cn_source' = 1
    /\ cn_target' = 1
    /\ cn_iter' = 0
    /\ cn_template_count' = 0
    /\ cn_connections' = <<>>
    /\ cn_last' = [pass |-> "none"]
    /\ \E fetched \in BOOLEAN :
          gp_db' = [gp_db EXCEPT !.modules =
                       Gather(@, Resolve(gp_request, 1), 1, fetched)]
    /\ gp_pc' = "connections"
    /\ UNCHANGED <<gpArgs, gp_error, gp_settings, gp_result,
                   clsVars, rkVars, giVars, roVars, mgVars>>

\* _generate_control_settings adding None to None: TypeError
PatchRaisesTypeError ==
    /\ gp_pc = "connections"
    /\ cn_pc = "done"
    /\ RaisesTypeError(gp_module_objects, gp_patch_type)
    /\ gp_pc' = "raised"
    /\ gp_error' = "TypeError"
    /\ UNCHANGED <<gpArgs, gp_module_objects, gp_patch_type, gp_settings,
                   gp_db, gp_result,
                   clsVars, rkVars, giVars, cnVars, roVars, mgVars>>

\* _generate_control_settings returning
PatchControlSettings ==
    /\ gp_pc = "connections"
    /\ cn_pc = "done"
    /\ ~RaisesTypeError(gp_module_objects, gp_patch_type)
    /\ gp_settings' = GenerateControlSettings(gp_module_objects, cn_roles,
                                              gp_patch_type, 1)
    /\ gp_pc' = "generated"
    /\ UNCHANGED <<gpArgs, gp_error, gp_module_objects, gp_patch_type,
                   gp_db, gp_result,
                   clsVars, rkVars, giVars, cnVars, roVars, mgVars>>

\* PatchIdea(...), db.session.add, db.session.commit
PersistIdea ==
    /\ gp_pc = "generated"
    /\ \E complexity \in 2..5 :
          gp_db' = [gp_db EXCEPT !.patch_ideas =
                       Append(@, [id |-> Len(@) + 1,
                                  patch_type |-> gp_patch_type,
                                  complexity |-> complexity,
                                  source_type |-> "generated"])]
    /\ gp_pc' = "idea stored"
    /\ UNCHANGED <<gpArgs, gp_error, gp_module_objects, gp_patch_type,
                   gp_settings, gp_result,
                   clsVars, rkVars, giVars, cnVars, roVars, mgVars>>

\* the id of the PatchIdea row this call stored
PatchId == Len(gp_db.patch_ideas)

\* the PatchModule rows, db.session.commit
PersistModules ==
    /\ gp_pc = "idea stored"
    /\ gp_db' = [gp_db EXCEPT !.patch_modules = @ \o
                    [i \in 1..Len(gp_module_objects) |->
                        [patch_id |-> PatchId,
                         module_id |-> gp_module_objects[i].id,
                         importance |->
                            IF gp_module_objects[i].id \in DOMAIN cn_roles
                               /\ cn_roles[gp_module_objects[i].id].importance > 3
                            THEN 5 ELSE 3]]]
    /\ gp_pc' = "modules stored"
    /\ UNCHANGED <<gpArgs, gp_error, gp_module_objects, gp_patch_type,
                   gp_settings, gp_result,
                   clsVars, rkVars, giVars, cnVars, roVars, mgVars>>

\* the PatchConnection rows, db.session.commit
PersistConnections ==
    /\ gp_pc = "modules stored"
    /\ gp_db' = [gp_db EXCEPT !.patch_connections = @ \o
                    [i \in 1..Len(cn_connections) |->
                        [f \in {"patch_id"} \cup DOMAIN cn_connections[i] |->
                            IF f = "patch_id" THEN PatchId
                            ELSE cn_connections[i][f]]]]
    /\ gp_pc' = "connections stored"
    /\ UNCHANGED <<gpArgs, gp_error, gp_module_objects, gp_patch_type,
                   gp_settings, gp_result,
                   clsVars, rkVars, giVars, cnVars, roVars, mgVars>>

\* the PatchControlSetting rows, db.session.commit
PersistSettings ==
    /\ gp_pc = "connections stored"
    /\ gp_db' = [gp_db EXCEPT !.patch_control_settings = @ \o
                    [i \in 1..Len(gp_settings) |->
                        [patch_id   |-> PatchId,
                         module_id  |-> gp_settings[i].module_id,
                         control_id |-> gp_settings[i].control_id,
                         value_text |-> gp_settings[i].value_text,
                         importance |-> gp_settings[i].importance]]]
    /\ gp_pc' = "settings stored"
    /\ UNCHANGED <<gpArgs, gp_error, gp_module_objects, gp_patch_type,
                   gp_settings, gp_result,
                   clsVars, rkVars, giVars, cnVars, roVars, mgVars>>

\* the returned dict, without its texts
PatchReturn ==
    /\ gp_pc = "settings stored"
    /\ gp_result' =
          << [id |-> PatchId,
              patch_type |-> gp_db.patch_ideas[PatchId].patch_type,
              complexity |-> gp_db.patch_ideas[PatchId].complexity,
              modules |-> [i \in 1..Len(gp_module_objects) |->
                              [id |-> gp_module_objects[i].id,
                               name |-> gp_module_objects[i].name]],
              connections |-> [i \in 1..Len(cn_connections) |->
                  [source_module |->
                      QueryGet(cn_connections[i].source_module_id)[1].name,
                   target_module |->
                      QueryGet(cn_connections[i].target_module_id)[1].name]],
              control_settings |-> [i \in 1..Len(gp_settings) |->
                  [module |-> QueryGet(gp_settings[i].module_id)[1].name,
                   value  |-> gp_settings[i].value_text]]] >>
    /\ gp_pc' = "returned"
    /\ UNCHANGED <<gpArgs, gp_error, gp_module_objects, gp_patch_type,
                   gp_settings, gp_db,
                   clsVars, rkVars, giVars, cnVars, roVars, mgVars>>

\* db.session.commit(), or a query of the response, raising: the exception
\* leaves generate_patch, whose caller logs it and answers 500; nothing
\* rolls back or deletes what the earlier commits stored
PersistFails ==
    /\ gp_pc \in {"generated", "idea stored", "modules stored",
                  "connections stored", "settings stored"}
    /\ gp_pc' = "raised"
    /\ gp_error' = "SQLAlchemyError"
    /\ UNCHANGED <<gpArgs, gp_module_objects, gp_patch_type,
                   gp_settings, gp_db, gp_result,
                   clsVars, rkVars, giVars, cnVars, roVars, mgVars>>

NextPatch ==
    \/ PatchRaisesValueError
    \/ PatchStart
    \/ NextConn
    \/ PatchRaisesTypeError
    \/ PatchControlSettings
    \/ PersistIdea
    \/ PersistModules
    \/ PersistConnections
    \/ PersistSettings
    \/ PatchReturn
    \/ PersistFails

SpecPatch == InitPatch /\ [][NextPatch]_vars

---------------------------------------------------------------------------
(* SpecControls: generate_patch from the call of _generate_control_settings *)
(* on, for module lists and patch types chosen freely                       *)

MaxControlModules == 2

\* the modules whose controls the pattern tables can address, one without
\* a type and one without controls
ControlLibrary ==
    <<Library[1], Library[2], Library[3], Library[4], Library[5],
      BatumiLFO, VeilsVCA, ScalesQuantizer>>

ControlModuleLists ==
    UNION {[1..n -> Range(ControlLibrary)] : n \in 0..MaxControlModules}

InitControls ==
    /\ gp_module_objects \in ControlModuleLists
    /\ gp_patch_type \in DOMAIN control_patterns
    /\ gp_request = [k \in 1..Len(gp_module_objects) |->
                        [form |-> "object", module |-> gp_module_objects[k]]]
    /\ gp_prompt = NONE
    /\ gp_pc = "connections"
    /\ gp_error = NONE
    /\ gp_settings = <<>>
    /\ gp_db = EmptyTables
    /\ gp_result = <<>>
    /\ cn_modules = gp_module_objects
    /\ cn_patch_type = gp_patch_type
    /\ cn_roles = ModuleRoles(gp_module_objects, gp_patch_type)
    /\ cn_pc = "done"
    /\ cn_pattern = 1
    /\ cn_source = 1
    /\ cn_target = 1
    /\ cn_iter = 0
    /\ cn_template_count = 0
    /\ cn_connections = <<>>
    /\ cn_last = [pass |-> "none"]
    /\ ClsIdle
    /\ RkIdle
    /\ GiIdle
    /\ RoIdle
    /\ MgIdle

NextControls ==
    \/ PatchRaisesTypeError
    \/ PatchControlSettings

SpecControls == InitControls /\ [][NextControls]_vars

---------------------------------------------------------------------------
(* SpecRoles: one call of PatchGenerator._determine_module_roles           *)

InitRoles ==
    /\ ro_modules \in RoleModuleLists
    /\ ro_patch_type \in DOMAIN PrioritizedTypes
    /\ ro_pc = "loop"
    /\ ro_i = 1
    /\ ro_roles = <<>>
    /\ ClsIdle
    /\ RkIdle
    /\ GiIdle
    /\ CnIdle
    /\ GpIdle
    /\ MgIdle

InRoleLoop ==
    /\ ro_pc = "loop"
    /\ ro_i <= Len(ro_modules)

\* matching_type of the module the loop is at
CurrentMatchingType == MatchingTypes[TypeLower(ro_modules[ro_i])]

\* the loop body stores one of the entries the module can get
StoreRole ==
    /\ \E entry \in RoleChoices(CurrentMatchingType, ro_patch_type) :
          ro_roles' = PutRole(ro_roles, ro_modules[ro_i].id, entry)
    /\ ro_i' = ro_i + 1
    /\ UNCHANGED <<ro_modules, ro_patch_type, ro_pc,
                   clsVars, rkVars, giVars, cnVars, gpVars, mgVars>>

\* no matching type: the default role
AssignUtility ==
    /\ InRoleLoop
    /\ CurrentMatchingType = NONE
    /\ StoreRole

\* a prioritized combination of patch type and matching type
AssignPrioritized ==
    /\ InRoleLoop
    /\ CurrentMatchingType # NONE
    /\ CurrentMatchingType \in PrioritizedTypes[ro_patch_type]
    /\ StoreRole

\* any other matching type: random.choice(possible_roles)
AssignRandom ==
    /\ InRoleLoop
    /\ CurrentMatchingType # NONE
    /\ CurrentMatchingType \notin PrioritizedTypes[ro_patch_type]
    /\ StoreRole

\* return module_roles
RolesReturn ==
    /\ ro_pc = "loop"
    /\ ro_i > Len(ro_modules)
    /\ ro_pc' = "returned"
    /\ UNCHANGED <<ro_modules, ro_patch_type, ro_i, ro_roles,
                   clsVars, rkVars, giVars, cnVars, gpVars, mgVars>>

NextRoles ==
    \/ AssignUtility
    \/ AssignPrioritized
    \/ AssignRandom
    \/ RolesReturn

SpecRoles == InitRoles /\ [][NextRoles]_vars

---------------------------------------------------------------------------
(* SpecParse: calls of ModularGridParser.parse_url, one after another      *)

InitParse ==
    /\ mg_db \in {EmptyRackDb, SeededRackDb}
    /\ mg_calls = 0
    /\ mg_call = [op |-> "none", pc |-> "idle"]
    /\ ClsIdle
    /\ RkIdle
    /\ GiIdle
    /\ CnIdle
    /\ GpIdle
    /\ RoIdle

\* the previous call is over and another one may start
CanCall ==
    /\ mg_calls < MaxCalls
    /\ mg_call.pc \in {"idle", "returned", "raised"}

\* not rack_id_match: raise ValueError
ParseUrlRaises ==
    /\ CanCall
    /\ \E url \in Urls :
          /\ UrlMatches[url].match = 0
          /\ mg_call' = [op |-> "parse_url", pc |-> "raised", url |-> url,
                         error |-> "ValueError", scraped |-> FALSE,
                         queries |-> 0, commits |-> 0, db_before |-> mg_db]
    /\ mg_calls' = mg_calls + 1
    /\ UNCHANGED <<mg_db, clsVars, rkVars, giVars, cnVars, gpVars, roVars>>

\* existing_rack: return the stored rack
ParseUrlCached ==
    /\ CanCall
    /\ \E url \in Urls :
          LET rack_id == UrlMatches[url].rack_id
              existing == ExistingRack(mg_db.user_racks, rack_id)
          IN  /\ UrlMatches[url].match # 0
              /\ existing # 0
              /\ mg_call' =
                    [op |-> "parse_url", pc |-> "returned", url |-> url,
                     rack_id |-> rack_id, error |-> NONE, scraped |-> FALSE,
                     queries |-> 1, commits |-> 0, db_before |-> mg_db,
                     result |->
                        [rack_id |-> mg_db.user_racks[existing].id,
                         modulargrid_id |->
                            mg_db.user_racks[existing].modulargrid_id,
                         rack_name |-> mg_db.user_racks[existing].rack_name,
                         modules |->
                            RackModuleNames(mg_db,
                                            mg_db.user_racks[existing].id)]]
    /\ mg_calls' = mg_calls + 1
    /\ UNCHANGED <<mg_db, clsVars, rkVars, giVars, cnVars, gpVars, roVars>>

\* no stored rack: rack_data = self._scrape_rack_page(url)
ParseUrlScrape ==
    /\ CanCall
    /\ \E url \in Urls, response \in HttpResponses :
          LET rack_id == UrlMatches[url].rack_id
          IN  /\ UrlMatches[url].match # 0
              /\ ExistingRack(mg_db.user_racks, rack_id) = 0
              /\ mg_call' =
                    [op |-> "parse_url", pc |-> "scraped", url |-> url,
                     rack_id |-> rack_id, error |-> NONE, scraped |-> TRUE,
                     queries |-> 1, commits |-> 0, db_before |-> mg_db,
                     scrape_url |-> ScrapeUrl(url, rack_id),
                     response |-> response,
                     rack_data |-> ScrapeRackPage(response)]
    /\ mg_calls' = mg_calls + 1
    /\ UNCHANGED <<mg_db, clsVars, rkVars, giVars, cnVars, gpVars, roVars>>

\* the new rack, its modules and their places are stored and returned
ParseUrlStore ==
    /\ mg_call.pc = "scraped"
    /\ LET rack_data == mg_call.rack_data
           new_rack == [id |-> Len(mg_db.user_racks) + 1,
                        modulargrid_url |-> mg_call.scrape_url,
                        modulargrid_id |-> mg_call.rack_id,
                        rack_name |-> rack_data.rack_name]
           modules == StoreModules(mg_db.modules, rack_data.modules, 1)
           modules_data ==
               [k \in 1..Len(rack_data.modules) |->
                   modules[FindModule(modules, rack_data.modules[k])]]
           rack_modules ==
               [k \in 1..Len(modules_data) |->
                   [rack_id |-> new_rack.id,
                    module_id |-> modules_data[k].id,
                    position_x |-> (k - 1) * modules_data[k].hp_width,
                    position_y |-> 0]]
       IN  /\ mg_db' = [user_racks |-> Append(mg_db.user_racks, new_rack),
                        modules |-> modules,
                        rack_modules |-> mg_db.rack_modules \o rack_modules]
           /\ mg_call' =
                 [op |-> "parse_url", pc |-> "returned", url |-> mg_call.url,
                  rack_id |-> mg_call.rack_id, error |-> NONE,
                  scraped |-> TRUE,
                  queries |-> 1 + Len(rack_data.modules),
                  commits |-> 2 + Len(modules) - Len(mg_db.modules),
                  db_before |-> mg_call.db_before,
                  response |-> mg_call.response,
                  rack_data |-> rack_data,
                  result |->
                     [rack_id |-> new_rack.id,
                      modulargrid_id |-> new_rack.modulargrid_id,
                      rack_name |-> new_rack.rack_name,
                      modules |-> [k \in 1..Len(modules_data) |->
                                      modules_data[k].name]]]
    /\ UNCHANGED <<mg_calls, clsVars, rkVars, giVars, cnVars, gpVars, roVars>>

\* an exception inside the try block of parse_url, raised by the commit of
\* the new rack ("rack") or by the first database statement after it
\* ("modules"): the except branch rolls back what is not committed, stores a
\* rack named after the rack id with the first five modules of the
\* database, and returns it
ParseUrlStoreFails ==
    /\ mg_call.pc = "scraped"
    /\ \E failed \in {"rack", "modules"} :
          LET user_racks ==
                  IF failed = "modules"
                  THEN Append(mg_db.user_racks,
                              [id |-> Len(mg_db.user_racks) + 1,
                               modulargrid_url |-> mg_call.scrape_url,
                               modulargrid_id |-> mg_call.rack_id,
                               rack_name |-> mg_call.rack_data.rack_name])
                  ELSE mg_db.user_racks
              new_rack == [id |-> Len(user_racks) + 1,
                           modulargrid_url |-> mg_call.scrape_url,
                           modulargrid_id |-> mg_call.rack_id,
                           rack_name |-> "Rack " \o mg_call.rack_id]
              modules == SubSeq(mg_db.modules, 1,
                                IF Len(mg_db.modules) < 5
                                THEN Len(mg_db.modules) ELSE 5)
              rack_modules ==
                  [k \in 1..Len(modules) |->
                      [rack_id |-> new_rack.id,
                       module_id |-> modules[k].id,
                       position_x |-> (k - 1) * modules[k].hp_width,
                       position_y |-> 0]]
          IN  /\ mg_db' = [user_racks |-> Append(user_racks, new_rack),
                           modules |-> mg_db.modules,
                           rack_modules |-> mg_db.rack_modules \o rack_modules]
              /\ mg_call' =
                    [op |-> "parse_url", pc |-> "returned",
                     url |-> mg_call.url,
                     rack_id |-> mg_call.rack_id, error |-> NONE,
                     scraped |-> TRUE, failed |-> failed,
                     queries |-> 2,
                     commits |-> (IF failed = "modules" THEN 1 ELSE 0) + 2
                                 + (IF Len(modules) = 0 THEN 1 ELSE 0),
                     db_before |-> mg_call.db_before,
                     response |-> mg_call.response,
                     rack_data |-> mg_call.rack_data,
                     result |->
                        [rack_id |-> new_rack.id,
                         modulargrid_id |-> new_rack.modulargrid_id,
                         rack_name |-> new_rack.rack_name,
                         modules |-> [k \in 1..Len(modules) |->
                                         modules[k].name]]]
    /\ UNCHANGED <<mg_calls, clsVars, rkVars, giVars, cnVars, gpVars, roVars>>

NextParse ==
    \/ ParseUrlRaises
    \/ ParseUrlCached
    \/ ParseUrlScrape
    \/ ParseUrlStore
    \/ ParseUrlStoreFails

SpecParse == InitParse /\ [][NextParse]_vars

---------------------------------------------------------------------------
(* Properties of generate_patch_ideas (SpecIdeas)                          *)

\* the ideas of the returned list that this call generated
GeneratedIdeas ==
    SelectSeq(gi_result, LAMBDA idea : idea.origin = "generated")

\* the module of the rack with the given id owns a jack with the given id
\* and direction
OwnsJack(module_id, conn_id, direction) ==
    \E i \in 1..Len(gi_rack) :
        /\ gi_rack[i].id = module_id
        /\ \E k \in 1..Len(gi_rack[i].connections) :
              /\ gi_rack[i].connections[k].id = conn_id
              /\ gi_rack[i].connections[k].type = direction

\* C6: every control setting with a numeric value lies within the range
\* [min_value, max_value] of the control it names (value_numeric is in
\* hundredths).
C6_ValueWithinRange ==
    gi_pc = "returned" =>
        \A n \in 1..Len(GeneratedIdeas) :
            \A k \in 1..Len(GeneratedIdeas[n].control_settings) :
                LET setting == GeneratedIdeas[n].control_settings[k]
                IN  \A i \in 1..Len(gi_rack) :
                        \A c \in 1..Len(gi_rack[i].controls) :
                            LET ctrl == gi_rack[i].controls[c]
                            IN  ( /\ gi_rack[i].id = setting.module.id
                                  /\ ctrl.id = setting.control.id
                                  /\ "min_value" \in DOMAIN ctrl )
                                => /\ 100 * ctrl.min_value <= setting.value_numeric
                                   /\ setting.value_numeric <= 100 * ctrl.max_value

\* C7: every synthesized connection leaves an output jack of its source
\* module, enters an input jack of its target module, and joins two
\* different modules.
C7_ConnectionsAreValid ==
    gi_pc = "returned" =>
        \A n \in 1..Len(GeneratedIdeas) :
            \A k \in 1..Len(GeneratedIdeas[n].connections) :
                LET conn == GeneratedIdeas[n].connections[k]
                IN  /\ OwnsJack(conn.source_module.id,
                                conn.source_connection.id, "output")
                    /\ OwnsJack(conn.target_module.id,
                                conn.target_connection.id, "input")
                    /\ conn.source_module.id # conn.target_module.id

\* C12 (catalog-mock generator): a connection whose source jack name contains
\* "audio" or "out" (case-insensitive), under an archetype whose wiring names
\* no pitch, gate, trigger or clock, has the cable colour black.
C12_OutJackIsBlack ==
    gi_pc = "returned" =>
        \A n \in 1..Len(GeneratedIdeas) :
            \A k \in 1..Len(GeneratedIdeas[n].connections) :
                LET conn == GeneratedIdeas[n].connections[k]
                    name_lower == Lower(conn.source_connection.name)
                IN  (Contains(name_lower, "audio") \/ Contains(name_lower, "out"))
                    => conn.cable_color = "black"

\* C9: the returned list has at most max_results ideas (none when
\* max_results is not positive) and is ordered by non-increasing relevance
\* score, an idea without a score counting as the neutral score.
C9_AtMostNSorted ==
    gi_pc = "returned" =>
        /\ Len(gi_result) <= (IF gi_max_results > 0 THEN gi_max_results ELSE 0)
        /\ \A a, b \in 1..Len(gi_result) :
              a < b => ScoreOf(gi_result[a]) >= ScoreOf(gi_result[b])

\* C10: for a non-empty rack whose modules all declare a type, none of them a
\* priority type of the classified archetype (no stored ideas, max_results
\* >= 1), the
\* call returns, without raising, exactly one idea of the classified
\* archetype with a non-empty title and description.
C10_GracefulDegradation ==
    LET patch_type == AnalyzePrompt(gi_prompt) IN
    ( /\ gi_pc \in {"returned", "raised"}
      /\ Len(gi_rack) > 0
      /\ \A i \in 1..Len(gi_rack) :
            /\ gi_rack[i].module_type # MISSING
            /\ TypeKey(gi_rack[i]) \notin Range(CurrentPriorities(patch_type))
      /\ gi_db_ideas = <<>>
      /\ gi_max_results >= 1 )
    => /\ gi_pc = "returned"
       /\ Len(gi_result) = 1
       /\ gi_result[1].patch_type = patch_type
       /\ Len(gi_result[1].title) > 0
       /\ Len(gi_result[1].description) > 0

\* C28: every returned patch idea has a complexity within 1..5, whatever
\* complexity the caller passes, in the catalog-mock generator and in the
\* backend generator.
C28_ComplexityWithinRange ==
    /\ gi_pc = "returned" =>
          \A i \in 1..Len(gi_result) : gi_result[i].complexity \in 1..5
    /\ gp_pc = "returned" =>
          \A i \in 1..Len(gp_result) : gp_result[i].complexity \in 1..5

\* the part of C28 that holds: the backend generate_patch draws the
\* complexity itself
C28_BackendComplexityWithinRange ==
    gp_pc = "returned" =>
        \A i \in 1..Len(gp_result) : gp_result[i].complexity \in 1..5

---------------------------------------------------------------------------
(* Properties of the backend connection synthesizer (SpecConn)             *)

\* the endpoints of an entry of the connection list
Endpoints(conn) ==
    <<conn.source_module_id, conn.source_connection_id,
      conn.target_module_id, conn.target_connection_id>>

\* C8: a connection appended by the fallback pass has endpoints (source
\* module, source connection, target module, target connection) that no
\* earlier entry of the list has, whether that entry is template-derived or
\* was appended by an earlier fallback iteration.
C8_FallbackAddsNoDuplicate ==
    cn_pc \in {"fallback", "done"} =>
        \A j \in (cn_template_count + 1)..Len(cn_connections) :
            \A i \in 1..(j - 1) :
                Endpoints(cn_connections[i]) # Endpoints(cn_connections[j])

\* a fallback iteration drew the endpoints of a template-derived connection
\* and skipped them, after the fallback had already appended a connection
C8_Witness ==
    /\ cn_pc = "fallback"
    /\ cn_last.pass = "fallback"
    /\ cn_last.outcome = "exists"
    /\ cn_template_count >= 1
    /\ Len(cn_connections) > cn_template_count
    /\ <<cn_last.source_module_id, cn_last.source_connection_id,
         cn_last.target_module_id, cn_last.target_connection_id>>
       = Endpoints(cn_connections[1])

\* C11: for the modules [Plaits (VCO; OUT, AUX out; PITCH, TRIG in), Clouds
\* (Effect; IN in; OUT out)] and the prompt "ambient texture" the archetype is
\* ambient and the returned connections contain one from Plaits/OUT to
\* Clouds/IN.
C11_ScenarioConnection ==
    LET patch_type == FirstMention(Lower("ambient texture"), 1)
    IN  /\ patch_type = "ambient"
        /\ ( /\ cn_pc = "done"
              /\ cn_modules = <<PlaitsVCO, CloudsEffect>>
              /\ cn_patch_type = patch_type )
           => \E k \in 1..Len(cn_connections) :
                 Endpoints(cn_connections[k]) = <<7, 71, 8, 81>>

\* the backend template pass colours a connection by the precedence pitch >
\* gate/trigger > clock > audio/out jack name > any colour of the palette
BackendColorPrecedence ==
    (cn_last.pass = "template" /\ cn_last.outcome = "connected") =>
        LET pattern == ParsedPatterns[cn_patch_type][cn_last.pattern]
            name_lower == Lower(cn_last.source_connection.name)
            color == cn_last.dict.cable_color
        IN  IF Contains(pattern.target_type, "pitch") THEN color = "blue"
            ELSE IF Contains(pattern.target_type, "gate")
                    \/ Contains(pattern.target_type, "trigger")
            THEN color = "orange"
            ELSE IF Contains(pattern.source_type, "clock") THEN color = "purple"
            ELSE IF Contains(name_lower, "audio") \/ Contains(name_lower, "out")
            THEN color = "black"
            ELSE color \in palette

\* the backend synthesizer yields only connections from an output jack of the
\* source module to an input jack of a different target module
BackendConnectionsValid ==
    \A k \in 1..Len(cn_connections) :
        LET conn == cn_connections[k]
        IN  /\ conn.source_module_id # conn.target_module_id
            /\ \E c \in Range(ModuleConnections) :
                  /\ c.id = conn.source_connection_id
                  /\ c.module_id = conn.source_module_id
                  /\ c.connection_type = "output"
            /\ \E c \in Range(ModuleConnections) :
                  /\ c.id = conn.target_connection_id
                  /\ c.module_id = conn.target_module_id
                  /\ c.connection_type = "input"

\* some module with an output jack and a different module with an input jack
HasValidPair(modules) ==
    \E i, j \in 1..Len(modules) :
        /\ modules[i].id # modules[j].id
        /\ Len(ConnectionsOf(modules[i].id, "output")) > 0
        /\ Len(ConnectionsOf(modules[j].id, "input")) > 0

\* C15: the connection synthesizer never raises, whatever the module list
\* (empty, one module, modules without jacks): its archetype has a pattern
\* table and every random.choice of the fallback pass draws from a non-empty
\* list; and the connection list is empty whenever no module with an output
\* jack and a different module with an input jack exist.
C15_NeverRaisesEmptyWithoutPair ==
    /\ cn_pc # "idle" => cn_patch_type \in DOMAIN connection_patterns
    /\ InFallback =>
          /\ WithJacks(cn_modules, "output") # <<>>
          /\ WithJacks(cn_modules, "input") # <<>>
          /\ \A pair \in Range(WithJacks(cn_modules, "output"))
                         \cup Range(WithJacks(cn_modules, "input")) :
                 Len(pair[2]) > 0
    /\ (cn_pc # "idle" /\ ~HasValidPair(cn_modules)) => cn_connections = <<>>

\* the synthesizer returned an empty list for two modules that both have
\* jacks but are the same module, after the fallback pass ran its rounds
C15_Witness ==
    /\ cn_pc = "done"
    /\ Len(cn_modules) = 2
    /\ cn_iter > 0
    /\ ~HasValidPair(cn_modules)
    /\ cn_connections = <<>>

\* the role importance of a module id, 3 without a role entry
RoleImportanceOfId(id) ==
    IF id \in DOMAIN cn_roles THEN cn_roles[id].importance ELSE 3

\* the number of template-derived entries of the connection list so far
TemplateEntries ==
    IF cn_pc = "template" THEN Len(cn_connections) ELSE cn_template_count

\* C20: the importance of every template-derived connection is the maximum
\* of the role importance of its source module and the role importance of its
\* target module, a module without a role entry counting as 3.
C20_TemplateImportanceIsMax ==
    cn_pc # "idle" =>
        \A k \in 1..TemplateEntries :
            LET s == RoleImportanceOfId(cn_connections[k].source_module_id)
                t == RoleImportanceOfId(cn_connections[k].target_module_id)
            IN  /\ cn_connections[k].importance >= s
                /\ cn_connections[k].importance >= t
                /\ cn_connections[k].importance \in {s, t}

\* a template-derived connection whose target module has the larger role
\* importance was returned with that importance
C20_Witness ==
    /\ cn_pc = "done"
    /\ \E k \in 1..cn_template_count :
          /\ RoleImportanceOfId(cn_connections[k].source_module_id)
             < RoleImportanceOfId(cn_connections[k].target_module_id)
          /\ cn_connections[k].importance
             = RoleImportanceOfId(cn_connections[k].target_module_id)

\* what holds of the list while and after the fallback pass
C21_FallbackState ==
    /\ cn_pc = "fallback" => cn_template_count < 3
    /\ cn_pc \in {"fallback", "done"} =>
          /\ cn_template_count <= Len(cn_connections)
          /\ Len(cn_connections) - cn_template_count <= 5
          /\ Len(cn_connections) > cn_template_count => cn_template_count < 3
          /\ \A k \in (cn_template_count + 1)..Len(cn_connections) :
                cn_connections[k].importance = 3

\* a step of the fallback pass keeps the template-derived entries in place
C21_FallbackStep ==
    cn_pc = "fallback" =>
        /\ cn_template_count' = cn_template_count
        /\ Len(cn_connections') >= Len(cn_connections)
        /\ SubSeq(cn_connections', 1, cn_template_count)
           = SubSeq(cn_connections, 1, cn_template_count)

\* C21: the fallback pass runs only when the template pass produced fewer
\* than 3 connections; it adds at most 5 connections, each with importance 3,
\* and it leaves every template-derived connection unchanged and in its
\* original position.
C21_FallbackKeepsTemplate ==
    []C21_FallbackState /\ [][C21_FallbackStep]_vars

\* the fallback added five connections after one or two template-derived ones
C21_Witness ==
    /\ cn_pc = "done"
    /\ cn_template_count \in 1..2
    /\ Len(cn_connections) = cn_template_count + 5

\* some connection of the list leads from module id a to module id b
Connected(connections, a, b) ==
    \E k \in 1..Len(connections) :
        /\ connections[k].source_module_id = a
        /\ connections[k].target_module_id = b

\* C22: when the fallback pass runs it keeps adding connections until 5 new
\* ones are added or the pairs (module with an output, different module with
\* an input) are exhausted: finishing with fewer than 5 new connections, it
\* leaves no such pair without a connection, and it yields at least one
\* connection whenever such a pair exists.
C22_FallbackExhaustsPairs ==
    (cn_pc = "done" /\ cn_template_count < 3) =>
        /\ Len(cn_connections) - cn_template_count < 5 =>
              \A i, j \in 1..Len(cn_modules) :
                  ( /\ cn_modules[i].id # cn_modules[j].id
                    /\ Len(ConnectionsOf(cn_modules[i].id, "output")) > 0
                    /\ Len(ConnectionsOf(cn_modules[j].id, "input")) > 0 )
                  => Connected(cn_connections,
                               cn_modules[i].id, cn_modules[j].id)
        /\ HasValidPair(cn_modules) => Len(cn_connections) >= 1

\* the fallback pass performs a fixed number of draws and skips a draw of the
\* same module or of a present connection without drawing again
FallbackDrawsAreCounted ==
    cn_pc \in {"fallback", "done"} =>
        Len(cn_connections) - cn_template_count <= cn_iter

\* the position of the template pass, as one number
TemplatePosition(pattern, source, target) ==
    4 * (pattern - 1) + 2 * (source - 1) + (target - 1)

\* what holds of the list during and after the template pass
C23_TemplateState ==
    /\ (cn_pc = "template"
        /\ cn_pattern <= Len(connection_patterns[cn_patch_type])) =>
          /\ cn_source \in 1..2
          /\ cn_target \in 1..2
    /\ cn_pc = "template" =>
          Len(cn_connections)
          <= TemplatePosition(cn_pattern, cn_source, cn_target)
    /\ cn_pc \in {"fallback", "done"} =>
          cn_template_count <= 4 * Len(connection_patterns[cn_patch_type])
    /\ \A k \in 1..Len(cn_connections) :
          cn_connections[k].source_module_id
          # cn_connections[k].target_module_id

\* a step of the template pass moves on to a later pair or template and
\* appends at most one connection
C23_TemplateStep ==
    (cn_pc = "template" /\ cn_pc' = "template") =>
        /\ TemplatePosition(cn_pattern', cn_source', cn_target')
           > TemplatePosition(cn_pattern, cn_source, cn_target)
        /\ Len(cn_connections') \in
              {Len(cn_connections), Len(cn_connections) + 1}

\* C23: for each wiring template the template pass considers at most 2
\* candidate source modules and at most 2 candidate target modules, so it
\* emits at most 4 connections per template and at most 4 times the number
\* of the archetype's templates in total, never pairing a module with itself.
C23_TemplateFanOut ==
    []C23_TemplateState /\ [][C23_TemplateStep]_vars

\* the first template of a rack with three source and two target candidates
\* emitted exactly four connections
C23_Witness ==
    /\ cn_pc = "template"
    /\ cn_pattern = 2
    /\ Len(cn_modules) = 5
    /\ Len(cn_connections) = 4

\* min(5, number of modules with an output times modules with an input)
RoundsBound ==
    LET outputs == Cardinality({i \in 1..Len(cn_modules) :
                      Len(ConnectionsOf(cn_modules[i].id, "output")) > 0})
        inputs  == Cardinality({i \in 1..Len(cn_modules) :
                      Len(ConnectionsOf(cn_modules[i].id, "input")) > 0})
    IN  IF outputs * inputs < 5 THEN outputs * inputs ELSE 5

\* C26: every call of the connection synthesizer terminates, whatever the
\* random choices: the template pass visits each template once and at most
\* 2 x 2 pairs of it, and the fallback pass performs at most
\* min(5, outputs x inputs) iterations.
C26_Terminates ==
    /\ [](cn_pc # "idle" =>
            /\ cn_pattern <= Len(connection_patterns[cn_patch_type]) + 1
            /\ cn_source <= 2
            /\ cn_target <= 2
            /\ cn_iter <= RoundsBound)
    /\ <>(cn_pc = "done")

\* a call ended after the fallback pass ran five rounds on a rack offering
\* twenty pairs
C26_Witness ==
    /\ cn_pc = "done"
    /\ Len(cn_modules) = 5
    /\ cn_iter = 5

---------------------------------------------------------------------------
(* Properties of the backend generate_patch (SpecPatch)                    *)

\* C13: when no requested module resolves (empty list, ids without a row,
\* values that are no id), generate_patch raises ValueError, returns no patch
\* idea, and no PatchIdea, PatchModule, PatchConnection or
\* PatchControlSetting row has been stored.
C13_EmptySetRaises ==
    (gp_pc \notin {"idle", "start"} /\ Len(Resolve(gp_request, 1)) = 0)
    => /\ gp_pc = "raised"
       /\ gp_error = "ValueError"
       /\ gp_result = <<>>
       /\ gp_db = EmptyTables

\* a request that names only an id without a row and a value that is no id
\* has raised ValueError
C13_Witness ==
    /\ gp_pc = "raised"
    /\ gp_error = "ValueError"
    /\ Len(gp_request) = 2
    /\ gp_request[1].form = "int"
    /\ gp_request[2].form = "other"
    /\ gp_db = EmptyTables

\* C14: for a non-empty resolved module set generate_patch raises nothing:
\* the only exception it ever raises of its own, the database working, is
\* the ValueError of an empty set.
C14_OnlyInvalidInput ==
    gp_pc = "raised" /\ gp_error # "SQLAlchemyError" =>
        /\ gp_error = "ValueError"
        /\ Len(Resolve(gp_request, 1)) = 0

\* C27: a generation call leaves its inputs unchanged: every step of
\* generate_patch keeps the caller's module list, and no Module row is
\* modified.
C27_CallLeavesInputsUnchanged ==
    [][/\ gp_request' = gp_request
       /\ gp_db'.modules = gp_db.modules]_vars

\* the part of C27 that holds: the caller's module list is never changed
C27_RequestKept ==
    [][gp_request' = gp_request]_vars

\* a call that returned and left a manual stored in a Module row
C27_ManualStored ==
    /\ gp_pc = "returned"
    /\ gp_db.modules # ModuleManuals

\* the rows of the four patch tables that belong to no stored patch
NoPatchRows ==
    /\ gp_db.patch_ideas = <<>>
    /\ gp_db.patch_modules = <<>>
    /\ gp_db.patch_connections = <<>>
    /\ gp_db.patch_control_settings = <<>>

\* C29: persisting a generated patch is all-or-nothing: when generate_patch
\* has raised, at whatever step, no PatchIdea row and none of its child rows
\* is committed.
C29_AllOrNothing ==
    gp_pc = "raised" => NoPatchRows

\* the part of C29 that holds: an exception raised before the first commit
\* (no valid module, a control without a range) leaves the tables empty
C29_EarlyRaiseStoresNothing ==
    gp_pc = "raised" /\ gp_error \in {"ValueError", "TypeError"} => NoPatchRows

---------------------------------------------------------------------------
(* Properties of the backend control synthesizer (SpecControls)            *)

\* the lower-cased type of a catalog row
RowTypeLower(module) ==
    IF module.module_type = NULL THEN "unknown" ELSE Lower(module.module_type)

\* the position of the first module-type key of the archetype's table that
\* the module's lower-cased type contains, 0 when there is none
FirstTypeKey(module, patch_type) ==
    LET hits == {p \in 1..Len(control_patterns[patch_type]) :
                    Contains(RowTypeLower(module),
                             control_patterns[patch_type][p].type_key)}
    IN  IF hits = {} THEN 0
        ELSE CHOOSE p \in hits : \A q \in hits : p <= q

\* the position of the first control key of a pattern that the control's
\* lower-cased name contains, 0 when there is none
FirstControlKey(pattern, control) ==
    LET hits == {k \in 1..Len(pattern) :
                    Contains(Lower(control.control_name), pattern[k][1])}
    IN  IF hits = {} THEN 0
        ELSE CHOOSE k \in hits : \A j \in hits : k <= j

\* the controls a module gets a setting for: its own controls whose name
\* contains a control key of the pattern of the module's type key
ExpectedControls(module, patch_type) ==
    LET p == FirstTypeKey(module, patch_type)
    IN  IF p = 0 THEN {}
        ELSE {c \in Range(ModuleControls) :
                 /\ c.module_id = module.id
                 /\ FirstControlKey(control_patterns[patch_type][p].pattern, c)
                    # 0}

\* the pattern value of a control that gets a setting
ExpectedValue(module, patch_type, c) ==
    LET pattern ==
            control_patterns[patch_type][FirstTypeKey(module, patch_type)].pattern
    IN  pattern[FirstControlKey(pattern, c)][2]

\* the control ids of the settings emitted for a module id
EmittedFor(id) ==
    {gp_settings[k].control_id :
        k \in {j \in 1..Len(gp_settings) : gp_settings[j].module_id = id}}

\* C24: the control synthesizer emits a setting only for a (module, control)
\* pair where the control belongs to the module, the module's lower-cased
\* type contains a module-type key of the archetype's table and the control's
\* lower-cased name contains a control key of that type's pattern; modules
\* and controls without such a match contribute nothing, and what is emitted
\* for a module does not depend on the other modules of the list.
C24_OnlyMatchedControls ==
    gp_pc = "generated" =>
        /\ \A k \in 1..Len(gp_settings) :
              \E i \in 1..Len(gp_module_objects) :
                  gp_module_objects[i].id = gp_settings[k].module_id
        /\ \A i \in 1..Len(gp_module_objects) :
              EmittedFor(gp_module_objects[i].id)
              = {c.id : c \in ExpectedControls(gp_module_objects[i],
                                               gp_patch_type)}
        /\ Len(gp_settings)
           = Cardinality(UNION {
                 {<<i, c.id>> : c \in ExpectedControls(gp_module_objects[i],
                                                       gp_patch_type)} :
                 i \in 1..Len(gp_module_objects)})

\* a list of a module without a type and a filter with two controls, one
\* of them matched, yields the one setting of the filter's cutoff
C24_Witness ==
    /\ gp_pc = "generated"
    /\ gp_patch_type = "ambient"
    /\ Len(gp_module_objects) = 2
    /\ gp_module_objects[1].module_type = NULL
    /\ gp_module_objects[2].id = 4
    /\ Len(gp_settings) = 1
    /\ gp_settings[1].module_id = 4
    /\ gp_settings[1].control_id = 401

\* the fixed fractions of the qualitative pattern values, in hundredths
FixedFractions ==
    [p \in {"very low", "low", "medium", "high", "fast", "very high"} |->
        CASE p = "very low"  -> 10
          [] p = "low"       -> 25
          [] p = "medium"    -> 50
          [] p = "high"      -> 75
          [] p = "fast"      -> 80
          [] p = "very high" -> 90]

\* the label of a categorical pattern value: waveform and scale names
\* capitalized, note names as they are
CategoricalLabel ==
    [p \in {"saw", "square", "sine", "triangle",
            "pentatonic", "major", "minor", "chromatic",
            "C", "D", "E", "F", "G", "A", "B"} |->
        CASE p = "saw" -> "Saw" [] p = "square" -> "Square"
          [] p = "sine" -> "Sine" [] p = "triangle" -> "Triangle"
          [] p = "pentatonic" -> "Pentatonic" [] p = "major" -> "Major"
          [] p = "minor" -> "Minor" [] p = "chromatic" -> "Chromatic"
          [] OTHER -> p]

\* C25: for every emitted control setting value_numeric equals
\* min + (max - min) * f, f being the fixed fraction of the qualitative
\* pattern value (very low 0.10, low 0.25, medium 0.50, high 0.75, fast 0.80,
\* very high 0.90); for a categorical pattern value (waveform, scale and note
\* names) value_numeric is null and value_text is the label. Numbers are in
\* hundredths.
C25_ValueNumericIsFraction ==
    gp_pc = "generated" =>
        \A k \in 1..Len(gp_settings) :
            LET setting == gp_settings[k]
                module  == CHOOSE m \in Range(gp_module_objects) :
                               m.id = setting.module_id
                c       == CHOOSE x \in Range(ModuleControls) :
                               x.id = setting.control_id
                value   == ExpectedValue(module, gp_patch_type, c)
            IN  /\ value \in DOMAIN FixedFractions \cup DOMAIN CategoricalLabel
                /\ value \in DOMAIN FixedFractions =>
                      /\ "value_numeric" \in DOMAIN setting
                      /\ setting.value_numeric
                         = 100 * c.min_value
                           + (c.max_value - c.min_value) * FixedFractions[value]
                /\ value \in DOMAIN CategoricalLabel =>
                      /\ "value_numeric" \notin DOMAIN setting
                      /\ setting.value_text = CategoricalLabel[value]

\* an oscillator under bass: the waveform set to the label "Saw" with no
\* number, the detune of range 0..12 set low, to 3.00
C25_Witness ==
    /\ gp_pc = "generated"
    /\ gp_patch_type = "bass"
    /\ Len(gp_settings) = 2
    /\ gp_settings[1].control_id = 101
    /\ "value_numeric" \notin DOMAIN gp_settings[1]
    /\ gp_settings[1].value_text = "Saw"
    /\ gp_settings[2].control_id = 102
    /\ gp_settings[2].value_numeric = 300

---------------------------------------------------------------------------
(* Properties of the backend role assigner (SpecRoles)                     *)

\* the lower-cased declared type of a module of the role library
DeclaredTypeLower ==
    [id \in {RoleLibrary[k].id : k \in 1..Len(RoleLibrary)} |->
        LET module == CHOOSE m \in Range(RoleLibrary) : m.id = id
        IN  IF module.module_type = NULL THEN "unknown"
            ELSE Lower(module.module_type)]

\* the position in module_type_roles of the first role keyword that is a
\* substring of the module's lower-cased type, 0 when there is none
FirstKeyword ==
    [id \in DOMAIN DeclaredTypeLower |->
        LET hits == {k \in 1..Len(RoleTypeKeys) :
                        Contains(DeclaredTypeLower[id], RoleTypeKeys[k])}
        IN  IF hits = {} THEN 0
            ELSE CHOOSE k \in hits : \A j \in hits : k <= j]

\* the special-case words of every archetype that are a substring of the
\* module's lower-cased type
SpecialWordsIn ==
    [id \in DOMAIN DeclaredTypeLower |->
        [pt \in DOMAIN PrioritizedTypes |->
            {w \in PrioritizedTypes[pt] :
                Contains(DeclaredTypeLower[id], w)}]]

\* the ids of the modules the loop has handled
HandledIds == {ro_modules[k].id : k \in 1..(ro_i - 1)}

\* C18: the role assigner gives every input module exactly one role entry:
\* "utility" with importance 2 when no role keyword is a substring of the
\* lower-cased type; the fixed name of the special case with importance 5
\* when the first matching keyword forms a special case with the archetype;
\* otherwise a candidate role of the first matching keyword with importance
\* 3. Every importance is in {2, 3, 5}.
C18_OneRolePerModule ==
    ro_pc # "idle" =>
        /\ DOMAIN ro_roles = HandledIds
        /\ ro_pc = "returned" =>
              DOMAIN ro_roles = {ro_modules[k].id : k \in 1..Len(ro_modules)}
        /\ \A id \in DOMAIN ro_roles :
              LET entry == ro_roles[id]
                  k == FirstKeyword[id]
              IN  /\ DOMAIN entry = {"role", "importance"}
                  /\ entry.importance \in {2, 3, 5}
                  /\ IF k = 0
                     THEN entry = [role |-> "utility", importance |-> 2]
                     ELSE IF RoleTypeKeys[k] \in PrioritizedTypes[ro_patch_type]
                     THEN entry = [role |-> PrioritizedRole[ro_patch_type],
                                   importance |-> 5]
                     ELSE /\ entry.importance = 3
                          /\ entry.role
                             \in Range(module_type_roles[RoleTypeKeys[k]])

\* a call returned one entry of each kind it can give: the default, a
\* special case, and a drawn candidate role
C18_Witness ==
    /\ ro_pc = "returned"
    /\ Len(ro_modules) = 2
    /\ ro_patch_type = "bass"
    /\ 24 \in DOMAIN ro_roles
    /\ ro_roles[24] = [role |-> "bass generator", importance |-> 5]
    /\ \E id \in DOMAIN ro_roles : ro_roles[id].importance \in {2, 3}

\* C19: every (archetype, module type) pair of the special-case conditions is
\* reachable: a module whose declared type contains that type word receives
\* the fixed role with importance 5 under that archetype (under percussion, a
\* module of type "Noise" becomes "percussion generator" with importance 5).
C19_SpecialCasesReachable ==
    ro_pc # "idle" =>
        \A id \in DOMAIN ro_roles :
            SpecialWordsIn[id][ro_patch_type] # {} =>
                ro_roles[id] = [role |-> PrioritizedRole[ro_patch_type],
                                importance |-> 5]

---------------------------------------------------------------------------
(* Properties of the ModularGrid parser (SpecParse)                        *)

\* the text "/racks/view/" followed by a digit occurs in url
ContainsRackPath(url) ==
    \E i \in 1..Len(url) :
        /\ i + 12 <= Len(url)
        /\ SubSeq(url, i, i + 11) = "/racks/view/"
        /\ SubSeq(url, i + 12, i + 12)
           \in {"0", "1", "2", "3", "4", "5", "6", "7", "8", "9"}

\* C16: parse_url raises ValueError for every URL without a
\* /racks/view/<digits> rack path (module URLs, foreign sites, arbitrary
\* text, the empty string), before any scrape and before any database read
\* or write, so the stored racks and modules are unchanged.
C16_InvalidUrlRaises ==
    (mg_call.op = "parse_url" /\ ~ContainsRackPath(mg_call.url)) =>
        /\ mg_call.pc = "raised"
        /\ mg_call.error = "ValueError"
        /\ ~mg_call.scraped
        /\ mg_call.queries = 0
        /\ mg_call.commits = 0
        /\ mg_db = mg_call.db_before

\* a call with the rack path but no rack id raised while a rack was stored
C16_Witness ==
    /\ mg_call.pc = "raised"
    /\ mg_call.url = "https://www.modulargrid.net/e/racks/view/"
    /\ mg_call.error = "ValueError"
    /\ Len(mg_db.user_racks) > 0
    /\ mg_db = mg_call.db_before

\* C17: when the HTTP request for the rack page fails, _scrape_rack_page
\* does not raise but returns the rack_name "Fallback Rack" and exactly the
\* three default modules Plaits, Rings and Clouds, in that order.
C17_ScrapeFailureFallback ==
    (mg_call.pc = "scraped" /\ mg_call.response.status = "error") =>
        /\ mg_call.rack_data.rack_name = "Fallback Rack"
        /\ Len(mg_call.rack_data.modules) = 3
        /\ mg_call.rack_data.modules[1].name = "Plaits"
        /\ mg_call.rack_data.modules[2].name = "Rings"
        /\ mg_call.rack_data.modules[3].name = "Clouds"

\* _scrape_rack_page returns for every response, the failed request and the
\* page without modules included, and then with an empty module list
ScrapeNeverRaises ==
    mg_call.pc = "scraped" =>
        /\ DOMAIN mg_call.rack_data = {"rack_name", "modules"}
        /\ (mg_call.response.status = "error"
            \/ mg_call.response.modules = <<>>)
           => mg_call.rack_data.modules = <<>>

\* no two rows of user_racks carry the same modulargrid_id
OneRackPerId ==
    \A i, j \in 1..Len(mg_db.user_racks) :
        mg_db.user_racks[i].modulargrid_id = mg_db.user_racks[j].modulargrid_id
        => i = j

\* a call for a rack id that was stored before the call returned a stored
\* rack of that id, without scraping and without a write
CachedCallReadsOnly ==
    (/\ mg_call.pc \in {"scraped", "returned"}
     /\ \E i \in 1..Len(mg_call.db_before.user_racks) :
           mg_call.db_before.user_racks[i].modulargrid_id = mg_call.rack_id)
    => /\ mg_call.pc = "returned"
       /\ ~mg_call.scraped
       /\ mg_call.commits = 0
       /\ mg_db = mg_call.db_before
       /\ mg_call.result.modulargrid_id = mg_call.rack_id
       /\ \E i \in 1..Len(mg_db.user_racks) :
             /\ mg_db.user_racks[i].id = mg_call.result.rack_id
             /\ mg_db.user_racks[i].modulargrid_id = mg_call.rack_id
             /\ mg_db.user_racks[i].rack_name = mg_call.result.rack_name

\* C30: after any sequence of parse_url calls, failed ones included, the
\* database holds at most one UserRack per modulargrid_id, and a call for a
\* stored rack id returns the stored rack without scraping and without
\* writing.
C30_OneRackPerIdAndCachedRead ==
    /\ OneRackPerId
    /\ CachedCallReadsOnly

\* a call for a stored rack id has returned from the database
C30_CachedCallSeen ==
    /\ mg_call.pc = "returned"
    /\ ~mg_call.scraped
    /\ Len(mg_db.user_racks) = 1

---------------------------------------------------------------------------
(* Properties of the ranker (SpecRank)                                     *)

\* C1: for every module list M and archetype A, the list returned by
\* _find_relevant_modules is a permutation of M: it has the length of M and
\* every module of M (also one without a type, or of a type outside the
\* priority list) occurs in it exactly once.
C1_RankIsPermutation ==
    rk_pc = "ranked" =>
        /\ Len(rk_sorted) = Len(rk_modules)
        /\ \A i \in 1..Len(rk_modules) :
              Cardinality({j \in 1..Len(rk_sorted) :
                              rk_sorted[j] = rk_modules[i]}) = 1

\* a ranked list of three modules, one without a type, one of a type outside
\* the priority list and one priority module that was moved to the front
C1_Witness ==
    /\ rk_pc = "ranked"
    /\ Len(rk_modules) = 3
    /\ rk_modules[1].module_type = MISSING
    /\ rk_modules[2].module_type = "Utility"
    /\ rk_modules[3].module_type = "VCO"
    /\ rk_sorted[1] = rk_modules[3]

\* the priority tier of a module: its type's position in the priority list,
\* or one past the end when the type is in no tier
Tier(module, patch_type) ==
    LET pr == CurrentPriorities(patch_type)
    IN  IF \E i \in 1..Len(pr) : pr[i] = TypeKey(module)
        THEN CHOOSE i \in 1..Len(pr) : pr[i] = TypeKey(module)
        ELSE Len(pr) + 1

\* C2: the ranked list is ordered by priority tier, modules of one tier keep
\* their input order, and all modules outside every tier come last in their
\* input order, whatever their types.
C2_StableByTier ==
    rk_pc = "ranked" =>
        \A a, b \in 1..Len(rk_sorted) :
            a < b =>
                \/ Tier(rk_sorted[a], rk_type) < Tier(rk_sorted[b], rk_type)
                \/ /\ Tier(rk_sorted[a], rk_type) = Tier(rk_sorted[b], rk_type)
                   /\ rk_sorted[a].id < rk_sorted[b].id

---------------------------------------------------------------------------
(* Properties of the classifiers (SpecClassify)                            *)

\* the lower-cased prompt contains the word
Mentions(prompt_lower, word) == Contains(prompt_lower, word)

\* the archetypes a classifier knows, in its order
OrderOf(pc) == IF pc = "determined" THEN PatchTypeOrder ELSE MockTypeOrder

Classified == cls_pc \in {"determined", "analyzed"}

Unrelated(p, pc) ==
    LET lp == Lower(p) IN
    IF pc = "determined"
    THEN \A a \in Range(PatchTypeOrder) :
            /\ ~Mentions(lp, a)
            /\ \A k \in Range(keywords[a]) : ~Mentions(lp, k)
    ELSE \A a \in Range(MockTypeOrder) :
            \A k \in MockKeywords[a] : ~Mentions(lp, k)

Score(lp, a) ==
    Cardinality({k \in Range(keywords[a]) : Mentions(lp, k)})

\* C5: when the prompt names no archetype, an archetype's score is the number
\* of its distinct keywords occurring in the prompt; when the best score is
\* positive the result has the best score, and the candidates of the random
\* choice are exactly the archetypes with the best score.
C5_MaxScoreWins ==
    LET lp    == Lower(prompt)
        score == [a \in Range(PatchTypeOrder) |-> Score(lp, a)]
    IN
    ( /\ cls_pc = "determined"
      /\ \A a \in Range(PatchTypeOrder) : ~Mentions(lp, a)
      /\ \E a \in Range(PatchTypeOrder) : score[a] > 0 )
    => /\ \A a \in Range(PatchTypeOrder) :
              score[a] <= score[detected]
       /\ Range(max_types) =
              {a \in Range(PatchTypeOrder) :
                  \A b \in Range(PatchTypeOrder) :
                      score[b] <= score[a]}
       /\ detected \in Range(max_types)

\* a tie between ambient and generative resolved for the second candidate,
\* and a prompt on which one archetype scores two and another one
C5_Witness ==
    /\ cls_pc = "determined"
    /\ \/ prompt = "evolving" /\ detected = "generative"
       \/ prompt = "pad evolving" /\ detected = "ambient"

=============================================================================
